---- MODULE Spec2Model ----
(***************************************************************************)
(* A model of homebridge-cync-app: the LAN transport, the TcpClient class  *)
(* of src/src/cync/tcp-client.ts (the second, implemented class of that    *)
(* file, lines 89-1029), and the session manager, the CyncClient class.    *)
(*                                                                         *)
(* Scheduling.  Node runs one callback at a time.  A step of the model is  *)
(* one run of synchronous code: from a call or an event up to the next     *)
(* await on something that is not yet settled.  Promise continuations      *)
(* (microtasks) run before the next I/O event or timer, so every action    *)
(* that models an event of the event loop or a call by the owner is        *)
(* guarded by ~MicrotaskPending; issuing a command (enqueueCommand) is     *)
(* allowed at any time, which is how several commands are issued "without  *)
(* awaiting one another".                                                  *)
(*                                                                         *)
(* Specifications.                                                         *)
(*   Spec      the client driven through its public methods and by the     *)
(*             socket events: commands and connect attempts.               *)
(*   SpecHb    Spec with fewer commands, of every kind, and the ticks of   *)
(*             the heartbeat interval.                                     *)
(*   SpecRx    the same client with one command and a server that sends    *)
(*             frames, delivered in arbitrary chunks.                      *)
(*   SpecTimer Spec plus a direct call of the private scheduleReconnect.   *)
(*             In the source nothing calls scheduleReconnect except the    *)
(*             rejection handler inside its own timer callback, and        *)
(*             ensureConnected never rejects; so under Spec the reconnect  *)
(*             timer is never armed.  SpecTimer exercises the method and   *)
(*             its timer callback by calling the method directly.          *)
(*   SpecTopo  the client on one socket with a server that sends state     *)
(*             updates, and an owner that applies LAN topologies and       *)
(*             registers controller mappings while frames arrive.          *)
(*   SpecSession  the session manager, the CyncClient class of             *)
(*             src/src/cync/cync-client.ts with the token store of         *)
(*             src/src/cync/token-store.ts, driven by the platform's       *)
(*             loadCync (src/src/platform.ts): each await is a step whose  *)
(*             outcome the cloud or the file system chooses.               *)
(*   SpecAck   the client with two commands and a server that answers with *)
(*             acknowledgement frames.                                     *)
(*   SpecRaw   SpecRx with raw-frame listeners, which return or throw,     *)
(*             registered while frames arrive.                             *)
(*   SpecDecode  SpecTopo with state updates of both types whose bodies    *)
(*             the topology parser, the controller-level parser, both or   *)
(*             neither match.                                              *)
(*   SpecSeq   the client with its sequence counter starting near the wrap *)
(*             and commands for known, unknown and incomplete devices.     *)
(*   SpecLoad  loadConfiguration and startTransport of CyncClient: the     *)
(*             topology caches built mesh by mesh from a cloud             *)
(*             configuration, each mesh's property request succeeding or   *)
(*             failing.                                                    *)
(*   SpecReload  SpecLoad, every request succeeding, with the TcpClient    *)
(*             running: a configuration is loaded again while frames       *)
(*             arrive.                                                     *)
(*   SpecCodec  the two packet builders, buildPowerPacket and              *)
(*             buildComboPacket, applied to arguments drawn from sets that *)
(*             hold values inside and outside each field's range.          *)
(*   SpecPacket  the client with one command, a power or a combo request   *)
(*             with a HomeKit brightness, up to the first packet written.  *)
(*   SpecBackoff  the connect attempts and the close events of SpecTimer   *)
(*             without commands, and enough reconnect timers, one after    *)
(*             another, for the delay to reach its cap.                    *)
(*   SpecSub   SpecRaw with the device-update subscriber, which returns    *)
(*             or throws, registered by the owner through onDeviceUpdate.  *)
(*   SpecLive  the client with commands for a known device and for one     *)
(*             whose packet cannot be built, sockets that drop, and weak   *)
(*             fairness of what the event loop always does: it runs the    *)
(*             pending continuations, and an open attempt ends, in         *)
(*             success or in failure.                                      *)
(***************************************************************************)
EXTENDS Integers, Sequences, FiniteSets, TLC

(* ----------------------------- bounds --------------------------------- *)
MaxCmds == 3
MaxCmdsHb == 1
MaxHeartbeats == 1
MaxCmdsRx == 1
MaxFrames == 2
MaxCmdsTimer == 1
MaxTimers == 1
MaxLoads == 2
MaxTokens == 3
MaxCmdsTopo == 1
MaxTopologies == 2
MaxCmdsAck == 2
MaxListeners == 2
MaxReloads == 2
MaxCmdsLoad == 1
MaxCmdsSeq == 3
MaxCmdsPacket == 1
MaxBackoffTimers == 6
MaxCmdsLive == 2

(* ------------------------ program constants --------------------------- *)
SeqMax == 65535
MeshIdBeyond == 70000
HeartbeatFrame == <<211, 0, 0, 0, 0>>
AckType == 123
AckMinLen == 6
HeaderLen == 5
LanMinLen == 29
LanTypeByte == 219
LegacyMinLen == 16
LegacyMarker == <<219, 17, 2, 1>>
LanUpdateTypes == {115, 131}
LegacyType == 131

(* ------------------------- input alphabets ---------------------------- *)
LoginA == <<19, 1>>
LoginB == <<19, 2>>
LoginCodes == {<<>>, LoginA, LoginB}
CmdKinds == {"power", "brightness", "color"}
AckBody == <<123, 0, 0, 0, 0, 9>>

\* homes, controllers, and the topologies loadConfiguration can have built:
\* the device slots of each home (no slots: the home is absent) and the
\* entries of the controller-to-home record, whose keys Number() turns into
\* a finite number or not
HomeIds == {"h1", "h2"}
ControllerIds == {1, 2}
NumKey(n) == [finite |-> TRUE, num |-> n]
NaNKey == [finite |-> FALSE, num |-> 0]
EmptyTopology ==
    [homeDevices |-> [h \in HomeIds |-> <<>>], switchIdToHomeId |-> {}]
TopologyA ==
    [homeDevices |-> [h \in HomeIds |->
                        IF h = "h1" THEN <<"a", "b">> ELSE <<>>],
     switchIdToHomeId |-> {[key |-> NumKey(1), homeId |-> "h1"]}]
TopologyB ==
    [homeDevices |-> [h \in HomeIds |->
                        IF h = "h1" THEN <<"b">> ELSE <<"c", "d">>],
     switchIdToHomeId |-> {[key |-> NumKey(1), homeId |-> "h2"],
                           [key |-> NumKey(2), homeId |-> "h1"],
                           [key |-> NaNKey, homeId |-> "h1"]}]
Topologies == {TopologyA, TopologyB}

\* a state-update body: controller id in bytes 0..3, the type byte at 13,
\* the device index at 21, the state byte at 27, the level byte at 28
LanBody(ctrl, typeByte, idx, state, level) ==
    [i \in 1..LanMinLen |->
        CASE i = 4 -> ctrl
          [] i = 14 -> typeByte
          [] i = 22 -> idx
          [] i = 28 -> state
          [] i = 29 -> level
          [] OTHER -> 0]
\* a controller-level body: controller id, then the marker, the on flag and
\* the level
LegacyBody(ctrl, onFlag, level) ==
    <<0, 0, 0, ctrl>> \o LegacyMarker \o <<onFlag, level>>
        \o <<0, 0, 0, 0, 0, 0>>
TopoFrames == {[type |-> 115, body |-> LanBody(1, LanTypeByte, 1, 1, 150)],
               [type |-> LegacyType, body |-> LegacyBody(2, 1, 60)]}

\* a state-update body that also carries the marker of the controller-level
\* layout at bytes 4..7, with on flag and level after it
BothBody(ctrl, idx, state, level, legacyLevel) ==
    [i \in 1..LanMinLen |->
        CASE i \in 5..8 -> LegacyMarker[i - 4]
          [] i = 9 -> 1
          [] i = 10 -> legacyLevel
          [] OTHER -> LanBody(ctrl, LanTypeByte, idx, state, level)[i]]
DecodeFrames == {[type |-> 115, body |-> LanBody(1, LanTypeByte, 1, 1, 150)],
                 [type |-> LegacyType, body |-> LegacyBody(2, 1, 60)],
                 [type |-> 115, body |-> LegacyBody(2, 1, 60)],
                 [type |-> LegacyType, body |-> LanBody(1, 0, 1, 1, 40)],
                 [type |-> LegacyType, body |-> BothBody(1, 0, 1, 30, 70)]}

(* ------------------------ payloads and calls -------------------------- *)

\* A clamp with no lower end.
clampNumber_upperOnly(n, min, max) == IF n > max THEN max ELSE n

\* Math.min(max, Math.max(min, n))
clampNumber(n, min, max) ==
    LET lo == IF n < min THEN min ELSE n
    IN  IF lo > max THEN max ELSE lo

\* what a frame handler hands to the subscriber
Payload(kind, controllerId, deviceId, on, pct) ==
    [kind |-> kind, controllerId |-> controllerId, deviceId |-> deviceId,
     on |-> on, brightnessPct |-> pct]

\* the raw frame itself is the payload
RawPayload == Payload("raw", 0, "undefined", FALSE, 0)

\* an acknowledgement reaches no frame handler
NoPayload == Payload("none", 0, "undefined", FALSE, 0)

\* a parser returned null
NoParse == Payload("null", 0, "undefined", FALSE, 0)

\* a call of a builder or parser: what it was given and what it returned
Call(op, in, bytes, payload) ==
    [op |-> op, in |-> in, bytes |-> bytes, payload |-> payload]

\* what a builder or parser can be given
Given(meshId, on, level, tone, rgb) ==
    [meshId |-> meshId, on |-> on, level |-> level, tone |-> tone, rgb |-> rgb]

\* a brightness a caller passes: a number, given in tenths of a percent
\* ("num"), a value Number() turns into NaN ("nan"), or none ("none")
Brightness(k, tenths) == [k |-> k, tenths |-> tenths]

\* what a caller passes with a command
Request(on, brightness, rgb) == [on |-> on, brightness |-> brightness, rgb |-> rgb]
DefaultRequest == Request(TRUE, Brightness("num", 500), <<255, 255, 255>>)

\* no builder or parser has been called
NoCall == Call("none", Given(0, FALSE, 0, 0, <<0, 0, 0>>), <<>>, NoPayload)

(* ------------------- cloud configurations to load --------------------- *)

\* a deviceID of a bulbsArray record, or the id of a mesh: a number ("num"),
\* a numeric string ("str"), a string that is no number ("nan") or nothing
\* ("none"); n is what Number() gives where it is a number, s is what
\* String() gives
Id(k, n) ==
    [k |-> k, n |-> n,
     s |-> CASE k \in {"num", "str"} -> ToString(n)
             [] k = "nan" -> "abc"
             [] OTHER -> ""]

\* a switchID of a record: a finite number, a number that is not finite
\* ("infinite"), or missing ("none")
Sid(kind, n) ==
    [has |-> kind # "none", finite |-> kind = "finite", num |-> n]

\* a record of a bulbsArray
Bulb(deviceID, switchID) == [deviceID |-> deviceID, switchID |-> switchID]

\* a mesh: its id (a number, or text that is no number) and the bulbsArray
\* its properties carry
Mesh(id, bulbs) == [id |-> id, bulbsArray |-> bulbs]

\* the controller ids records can carry, valid or not
SwitchIds == {-1, 0, 1, 2}

\* the configurations the cloud can return
ConfigA ==
    <<Mesh(Id("num", 7),
           <<Bulb(Id("num", 8), Sid("finite", 1)),
             Bulb(Id("num", 10), Sid("finite", 1)),
             Bulb(Id("str", 15), Sid("finite", 2)),
             Bulb(Id("nan", 0), Sid("finite", 0)),
             Bulb(Id("none", 0), Sid("none", 0))>>),
      Mesh(Id("num", 1500),
           <<Bulb(Id("num", 2501), Sid("finite", 2)),
             Bulb(Id("num", 1), Sid("infinite", 0)),
             Bulb(Id("num", 1501), Sid("finite", -1))>>),
      Mesh(Id("num", 0), <<Bulb(Id("num", 4), Sid("finite", 1))>>)>>
ConfigB ==
    <<Mesh(Id("nan", 0), <<Bulb(Id("num", 3), Sid("finite", 2))>>),
      Mesh(Id("num", 5),
           <<Bulb(Id("num", 7), Sid("finite", 2)),
             Bulb(Id("num", 5), Sid("finite", 1))>>),
      Mesh(Id("num", 7), <<Bulb(Id("num", 9), Sid("finite", 1))>>)>>
LanConfigs == {ConfigA, ConfigB}

\* String(mesh.id) of every mesh there is
LoadHomeIds ==
    {c[i].id.s : i \in 1..3, c \in LanConfigs}

ServerFrames == {[type |-> AckType, body |-> AckBody],
                 [type |-> 115, body |-> <<7>>],
                 [type |-> AckType, body |-> <<>>]}

VARIABLES
    transportMode,     \* "none" | "tls_strict" | "tls_relaxed" | "tcp"
    commandChain,      \* id of the command whose promise is the chain's tail; 0: Promise.resolve()
    loginCode,         \* the stored login code; <<>> stands for null and for empty
    config,            \* 0: null, 1: a configuration
    socket,            \* this.socket: 0 (null) or a socket id
    seq,               \* this.seq
    readBuffer,        \* this.readBuffer, a sequence of bytes
    heartbeatTimer,    \* 0 (null) or the interval handle
    reconnectTimer,    \* 0 (null) or the timeout handle
    reconnectAttempt,  \* this.reconnectAttempt
    connectInFlight,   \* 0 (null) or the id of the attempt whose promise it is
    shuttingDown,      \* this.shuttingDown
    cmds,              \* the enqueued command bodies, in issue order
    attempts,          \* the establishSocket() invocations, in start order
    sockets,           \* the socket opened by each attempt (same index)
    intervals,         \* the live setInterval handles
    timeouts,          \* the live setTimeout handles, each with its delay
    timerNo,           \* number of timeouts armed so far
    timersFired,       \* number of timeouts that have fired
    hbCount,           \* heartbeat ticks so far
    rxFrames,          \* the frames the server has sent, in order
    rxTorn,            \* a socket went away with undelivered or unconsumed bytes
    dispatched,        \* the frames processIncoming has extracted, in order
    payloads,          \* what handleIncomingFrame made of each extracted frame
    rawSeen,           \* the raw-frame listeners called with each extracted frame
    rawFrameListeners, \* this.rawFrameListeners: whether each listener throws
    deviceUpdateCb,    \* this.deviceUpdateCb: whether the subscriber throws
    lanLoad,           \* CyncClient's topology caches and where loadConfiguration is
    codec,             \* the last call of a packet builder or frame parser
    homeDevices,       \* this.homeDevices: the device slots of each home
    switchIdToHomeId,  \* this.switchIdToHomeId: the home of each controller
    controllerToDevice,\* this.controllerToDevice: "undefined" where no entry
    applied,           \* the topologies given to applyLanTopology, in order
    storeFile,         \* cync-tokens.json: NoCred (missing or unreadable) or a credential
    tokenData,         \* CyncClient.tokenData: NoCred (null) or a credential
    session,           \* CyncClient.session: 0 (null) or the access token it holds
    unsupported,       \* CyncClient.unsupportedPropertiesProductIds
    twoFactor,         \* loginConfig.twoFactor is a non-empty code
    spc,               \* where the platform's load is: the call it awaits
    wrapper,           \* the cloud wrapper running: "none" | "cfg" | "prop"
    firstErr,          \* the error the wrapper's first call threw, 0 if none
    cfg,               \* the meshes of the configuration being loaded
    meshIdx,           \* index of the mesh being probed
    pending,           \* the credential built and being saved, and how the save ended
    issued,            \* number of access tokens the cloud has issued
    lastStored,        \* the credential last saved to or loaded from the store
    flow,              \* what the current load has done so far
    hist               \* what all loads have done: their number, the property calls

clientVars == <<transportMode, commandChain, loginCode, config, socket, seq,
                readBuffer, heartbeatTimer, reconnectTimer, reconnectAttempt,
                connectInFlight, shuttingDown>>
envVars == <<cmds, attempts, sockets, intervals, timeouts, timerNo, timersFired, hbCount,
             rxFrames, rxTorn, dispatched, payloads, rawSeen>>
topoVars == <<homeDevices, switchIdToHomeId, controllerToDevice, applied,
              rawFrameListeners, deviceUpdateCb>>
sessVars == <<storeFile, tokenData, session, unsupported, twoFactor, spc,
              wrapper, firstErr, cfg, meshIdx, pending, issued, lastStored,
              flow, hist>>
vars == <<clientVars, envVars, topoVars, sessVars, lanLoad, codec>>


(* --------------------------- byte encodings --------------------------- *)

\* Buffer.writeUInt16BE(n): (the call throws for n outside 0..65535)
writeUInt16BE(n) == <<(n \div 256) % 256, n % 256>>

\* Buffer.writeUInt32BE(n); also the 4-byte big-endian length the server
\* puts in a header
u32be(n) ==
    <<(n \div 16777216) % 256, (n \div 65536) % 256, (n \div 256) % 256,
      n % 256>>

\* A string is the sequence of its character codes ('0' is 48); a number
\* that is NaN is written -1.

\* String(n) of a whole number n >= 0: its decimal digits
RECURSIVE String(_)
String(n) ==
    IF n < 10 THEN <<48 + n>>
    ELSE Append(String(n \div 10), 48 + (n % 10))

isDigit(ch) == ch \in 48..57

\* Number.parseInt(s, 10) of a string without sign or leading blanks: the
\* value of its leading digits, NaN when it has none
RECURSIVE digitsValue(_, _, _)
digitsValue(s, i, acc) ==
    IF i > Len(s) \/ ~isDigit(s[i]) THEN acc
    ELSE digitsValue(s, i + 1, 10 * acc + (s[i] - 48))

parseInt(s) ==
    IF Len(s) = 0 \/ ~isDigit(s[1]) THEN -1 ELSE digitsValue(s, 1, 0)

\* Number(s) of such a string: its value when it is all digits, else NaN
\* (0 for the empty string)
Number(s) ==
    IF \A i \in 1..Len(s) : isDigit(s[i]) THEN digitsValue(s, 1, 0)
    ELSE -1

\* Buffer.from(authorize, 'ascii'): one byte per character, its low 8 bits
asciiBytes(str) == [i \in 1..Len(str) |-> str[i] % 256]

\* a builder that writes the user id low byte first
buildLanLoginCode_littleEndian(authorize, userId) ==
    <<19, 0, 0, 0>> \o <<(10 + Len(authorize)) % 256>> \o <<3>>
    \o <<userId % 256, (userId \div 256) % 256, (userId \div 65536) % 256,
         (userId \div 16777216) % 256>>
    \o writeUInt16BE(Len(authorize)) \o asciiBytes(authorize)
    \o <<0, 0, 180>>

\* buildLanLoginCode(authorize, userId): head 13 00 00 00, the length byte
\* (Buffer.from([n]) keeps the low 8 bits), tag 03, the user id (a NaN is
\* written as 0), the length of authorize, its bytes, tail 00 00 b4
buildLanLoginCode(authorize, userId) ==
    <<19, 0, 0, 0>> \o <<(10 + Len(authorize)) % 256>> \o <<3>>
    \o u32be(IF userId = -1 THEN 0 ELSE userId)
    \o writeUInt16BE(Len(authorize)) \o asciiBytes(authorize)
    \o <<0, 0, 180>>

\* Buffer.toString('base64'): each 3 bytes as 4 digits of 6 bits, the last
\* group filled with '=' (written 64 here)
RECURSIVE toBase64(_)
toBase64(bytes) ==
    IF Len(bytes) = 0 THEN <<>>
    ELSE IF Len(bytes) = 1
    THEN <<bytes[1] \div 4, (bytes[1] % 4) * 16, 64, 64>>
    ELSE IF Len(bytes) = 2
    THEN <<bytes[1] \div 4, (bytes[1] % 4) * 16 + bytes[2] \div 16,
           (bytes[2] % 16) * 4, 64>>
    ELSE <<bytes[1] \div 4, (bytes[1] % 4) * 16 + bytes[2] \div 16,
           (bytes[2] % 16) * 4 + bytes[3] \div 64, bytes[3] % 64>>
         \o toBase64(SubSeq(bytes, 4, Len(bytes)))

\* Buffer.from(code, 'base64'): each 4 digits as 3 bytes, fewer where the
\* group ends in '='
RECURSIVE fromBase64(_)
fromBase64(code) ==
    IF Len(code) < 4 THEN <<>>
    ELSE LET b1 == code[1] * 4 + code[2] \div 16
             b2 == (code[2] % 16) * 16 + code[3] \div 4
             b3 == (code[3] % 4) * 64 + code[4]
         IN  IF code[3] = 64 THEN <<b1>>
             ELSE IF code[4] = 64 THEN <<b1, b2>>
             ELSE <<b1, b2, b3>> \o fromBase64(SubSeq(code, 5, Len(code)))

(* --------------------------- session data ----------------------------- *)

\* expiresAt, counted in seconds from the moment of the load: absent, or a
\* time before (<= 0) or after it
NoExpiry == [set |-> FALSE, at |-> 0]
ExpiresIn(n) == [set |-> TRUE, at |-> n]

\* a CyncTokenData: userId, the access token (by number), whether a refresh
\* token comes with it, expiresAt, authorize and lanLoginCode (strings, empty
\* when the field is absent)
Cred(userId, tok, refresh, exp, authorize, lan) ==
    [userId |-> userId, tok |-> tok, refresh |-> refresh, exp |-> exp,
     authorize |-> authorize, lan |-> lan]

\* no credential: null in memory, a missing or unreadable file in the store
NoCred == Cred(<<>>, 0, FALSE, NoExpiry, <<>>, <<>>)

\* the authorize code the cloud returns with the n-th token: "a1", "a2", ...
authorizeOf(n) == <<97, 48 + n>>

\* the user ids of the account an earlier run logged in as and of the
\* account the configuration names
UserIds == [stored |-> String(7), login |-> String(16909060)]

\* The credential loginWithTwoFactor() builds from a login response, given
\* in the shape of a credential (ensureLoggedIn).
twoFactorTokenData(resp) ==
    [resp EXCEPT !.lan = IF resp.authorize # <<>>
                         THEN toBase64(buildLanLoginCode(resp.authorize,
                                                         Number(resp.userId)))
                         ELSE <<>>]

\* The credential loginWithPasswordForToken() builds from a login response.
passwordTokenData(resp) ==
    [resp EXCEPT !.lan = IF resp.authorize # <<>> /\ parseInt(resp.userId) >= 0
                         THEN toBase64(buildLanLoginCode(resp.authorize,
                                                         parseInt(resp.userId)))
                         ELSE <<>>]

\* no save under way
NoPending == [cred |-> NoCred, via |-> "none", out |-> "none"]

\* the expiresAt of a credential found in the store when the process starts
StoredExpiries == {NoExpiry, ExpiresIn(-10), ExpiresIn(30), ExpiresIn(120)}

\* the expiresAt of a credential the cloud issues
IssuedExpiries == {NoExpiry, ExpiresIn(3600)}

\* the token file when the process starts: none, or what an earlier run saved
StoredCreds ==
    {NoCred}
    \cup {twoFactorTokenData(Cred(UserIds.stored, 1, r, e, authorizeOf(1), <<>>)) :
             r \in BOOLEAN, e \in StoredExpiries}

\* the responses a 2FA login or a password login can return, as the n-th
\* token issued: with a refresh token, an expiry and an authorize code, or
\* with none of them
LoginCreds(n) ==
    {Cred(UserIds.login, n, TRUE, ExpiresIn(3600), authorizeOf(n), <<>>),
     Cred(UserIds.login, n, FALSE, NoExpiry, <<>>, <<>>)}

\* the product ids of the meshes a cloud configuration lists, in order
CloudConfigs == {<<"p1", "p2", "p1">>}

\* how a cloud call ends: "ok" or the signature of the error it throws
CfgOutcomes == {"ok", "expired", "other"}
PropOutcomes == {"ok", "expired", "notexists", "other"}

\* how tokenStore.save ends: written; failed with the file untouched; failed
\* with the file left unreadable
SaveOutcomes == {"ok", "fail", "torn"}

\* the record of one wrapper invocation
NoWrapper ==
    [kind |-> "none", calls |-> 0, first |-> "none", second |-> "none",
     refreshed |-> "na", result |-> "none"]

\* the record of one refreshAccessToken invocation: whether the credential
\* it was given has a refresh token, the calls it made in order, how each
\* call and each save ended, and what it returned
NoRefresh ==
    [n |-> 0, hadRefresh |-> FALSE, order |-> <<>>, exch |-> "na",
     exchSave |-> "na", pw |-> "na", pwSave |-> "na", result |-> "na",
     codeRequests |-> 0, twoFaLogins |-> 0]

\* the record of one load by the platform
NoFlow ==
    [el |-> "none", codeRequests |-> 0, twoFaLogins |-> 0, cfgLoads |-> 0,
     connects |-> 0, elAtLoad |-> "none", elAtConnect |-> "none",
     stored |-> NoCred, elRefreshes |-> 0, w |-> NoWrapper, r |-> NoRefresh]

\* the session manager before the platform's first load, given the token
\* file and whether a 2FA code is configured
SessionInit(file, code) ==
    /\ storeFile = file
    /\ tokenData = NoCred
    /\ session = 0
    /\ unsupported = {}
    /\ twoFactor = code
    /\ spc = "idle"
    /\ wrapper = "none"
    /\ firstErr = 0
    /\ cfg = <<>>
    /\ meshIdx = 0
    /\ pending = NoPending
    /\ issued = IF file = NoCred THEN 0 ELSE 1
    /\ lastStored = NoCred
    /\ flow = NoFlow
    /\ hist = [loads |-> 0, boot |-> file, notExists |-> {}]

\* the decoding state of the TcpClient, as a load finds it
DecodingState ==
    [homeDevices |-> homeDevices, switchIdToHomeId |-> switchIdToHomeId,
     controllerToDevice |-> controllerToDevice]

\* CyncClient before any load: empty topology caches, no load under way.
\* pos is 0, or the mesh whose properties are awaited, or one more than the
\* number of meshes once loadConfiguration has returned.
NoLanLoad ==
    [cfg |-> <<>>, pos |-> 0, loads |-> 0, loaded |-> {},
     homeDevices |-> [h \in LoadHomeIds |-> <<>>],
     homeControllers |-> [h \in LoadHomeIds |-> <<>>],
     switchIdToHomeId |-> [c \in SwitchIds |-> ""],
     before |-> [homeDevices |-> [h \in HomeIds |-> <<>>],
                 switchIdToHomeId |-> [c \in ControllerIds |-> ""],
                 controllerToDevice |-> [c \in ControllerIds |-> "undefined"]]]

\* the fields after construction, the sequence counter standing at s
TcpInitFrom(s) ==
    /\ transportMode = "none"
    /\ commandChain = 0
    /\ loginCode = <<>>
    /\ config = 0
    /\ socket = 0
    /\ seq = s
    /\ readBuffer = <<>>
    /\ heartbeatTimer = 0
    /\ reconnectTimer = 0
    /\ reconnectAttempt = 0
    /\ connectInFlight = 0
    /\ shuttingDown = FALSE
    /\ cmds = <<>>
    /\ attempts = <<>>
    /\ sockets = <<>>
    /\ intervals = {}
    /\ timeouts = {}
    /\ timerNo = 0
    /\ timersFired = 0
    /\ hbCount = 0
    /\ rxFrames = <<>>
    /\ rxTorn = FALSE
    /\ dispatched = <<>>
    /\ payloads = <<>>
    /\ rawSeen = <<>>
    /\ rawFrameListeners = <<>>
    /\ deviceUpdateCb = "returns"
    /\ lanLoad = NoLanLoad
    /\ codec = NoCall
    /\ homeDevices = [h \in HomeIds |-> <<>>]
    /\ switchIdToHomeId = [c \in ControllerIds |-> ""]
    /\ controllerToDevice = [c \in ControllerIds |-> "undefined"]
    /\ applied = <<>>

TcpInit == TcpInitFrom(0)

Init == TcpInit /\ SessionInit(NoCred, FALSE)

\* where the sequence counter stands at the start
SeqStarts == {0, SeqMax - 1, SeqMax}

\* a client that has written commands before: the counter stands where
\* SeqStarts - 1 or more earlier writes have left it
InitSeq == \E s \in SeqStarts : TcpInitFrom(s) /\ SessionInit(NoCred, FALSE)

(* ------------------------------ helpers ------------------------------- *)

\* this.socket && !this.socket.destroyed
SocketOk == IF socket = 0 THEN FALSE ELSE sockets[socket].st = "open"

\* a guard that looks at the configuration only
HasLogin_configOnly == config # 0

\* !(!this.loginCode || !this.loginCode.length || !this.config)
HasLogin == loginCode # <<>> /\ config # 0

\* socket.write(data): a destroyed socket puts nothing on the wire
SocketWrite(ss, s, item) ==
    IF ss[s].st = "open"
    THEN [ss EXCEPT ![s].written = Append(@, item)]
    ELSE ss

\* cleanupSocket(sock); sock.destroy(): no listener is left to see the close
DestroyLocal(ss, s) ==
    [ss EXCEPT ![s].listeners = FALSE, ![s].st = "closed"]

\* bytes are lost when a socket stops being read with a frame cut in two
Torn(s) ==
    IF s = 0 THEN FALSE ELSE sockets[s].inbound # <<>> \/ readBuffer # <<>>

(* --------------------------- the device table ------------------------- *)

\* findDevice(deviceId) over the configuration: d1, d2 and d3 are in it
findDevice(dev) == dev \in {"d1", "d2", "d3"}

\* Number.isFinite(controllerId) && Number.isFinite(meshIndex): d2 lacks them
hasLanFields(dev) == dev \in {"d1", "d3"}

\* Number(record.switch_controller) and Number(record.mesh_id) of a device
\* that has them: the mesh index of d3 is beyond the two bytes of a packet
lanFields(dev) ==
    [switch_controller |-> 1,
     mesh_id |-> IF dev = "d3" THEN MeshIdBeyond ELSE 257]

(* ----------------------------- nextSeq -------------------------------- *)

\* A counter that wraps to 0.
nextSeq_wrapsToZero(s) == (s + 1) % (SeqMax + 1)

\* nextSeq(): the counter after the call, which is the value returned
nextSeq(s) == IF s = SeqMax THEN 1 ELSE s + 1

(* -------------------------- packet builders --------------------------- *)

\* Buffer.writeUInt16LE(n): (the call throws for n outside 0..65535)
writeUInt16LE(n) == <<n % 256, (n \div 256) % 256>>

\* Math.max(0, Math.min(255, Math.round(n))) of a whole number
byteOf(n) == IF n < 0 THEN 0 ELSE IF n > 255 THEN 255 ELSE n

\* A power packet whose checksum leaves the on byte out.
buildPowerPacket_seedOnly(controllerId, meshId, on, seqNo) ==
    LET meshBytes == writeUInt16LE(meshId)
    IN  <<115, 0, 0, 0, 31>> \o u32be(controllerId) \o writeUInt16BE(seqNo)
            \o <<0, 126, 0, 0, 0, 0, 248, 208, 13, 0, 0, 0, 0, 0, 0>>
            \o meshBytes
            \o <<208, 0, 0, IF on THEN 1 ELSE 0, 0, 0>>
            \o <<(429 + meshBytes[1] + meshBytes[2]) % 256>>
            \o <<126>>

\* buildPowerPacket(controllerId, meshId, on, seqNo): header, controller id,
\* sequence number, middle, mesh index, tail, checksum, end byte
buildPowerPacket(controllerId, meshId, on, seqNo) ==
    LET meshBytes == writeUInt16LE(meshId)
        checksumSeed == IF on THEN 430 ELSE 429
    IN  <<115, 0, 0, 0, 31>> \o u32be(controllerId) \o writeUInt16BE(seqNo)
            \o <<0, 126, 0, 0, 0, 0, 248, 208, 13, 0, 0, 0, 0, 0, 0>>
            \o meshBytes
            \o <<208, 0, 0, IF on THEN 1 ELSE 0, 0, 0>>
            \o <<(checksumSeed + meshBytes[1] + meshBytes[2]) % 256>>
            \o <<126>>

\* buildComboPacket(controllerId, meshId, on, brightnessLevel, colorTone,
\* rgb, seqNo)
buildComboPacket(controllerId, meshId, on, level, colorTone, rgb, seqNo) ==
    LET meshBytes == writeUInt16LE(meshId)
        onByte == IF on THEN 1 ELSE 0
        brightnessByte == byteOf(level)
        colorToneByte == byteOf(colorTone)
        r == byteOf(rgb[1])
        g == byteOf(rgb[2])
        b == byteOf(rgb[3])
        checksumSeed == 496 + meshBytes[1] + meshBytes[2] + onByte
                            + brightnessByte + colorToneByte + r + g + b
    IN  <<115, 0, 0, 0, 34>> \o u32be(controllerId) \o writeUInt16BE(seqNo)
            \o <<0, 126, 0, 0, 0, 0, 248, 240, 16, 0, 0, 0, 0, 0, 0>>
            \o meshBytes
            \o <<240, 0, 0>>
            \o <<onByte, brightnessByte, colorToneByte, r, g, b>>
            \o <<checksumSeed % 256>>
            \o <<126>>

\* buildPowerPacket is called
BuildPowerPacket(controllerId, meshId, on, seqNo) ==
    /\ codec' = Call("buildPowerPacket", Given(meshId, on, 0, 0, <<0, 0, 0>>),
                     buildPowerPacket(controllerId, meshId, on, seqNo),
                     NoPayload)
    /\ UNCHANGED <<clientVars, envVars, topoVars, sessVars, lanLoad>>

\* buildComboPacket is called
BuildComboPacket(controllerId, meshId, on, level, tone, rgb, seqNo) ==
    /\ codec' = Call("buildComboPacket", Given(meshId, on, level, tone, rgb),
                     buildComboPacket(controllerId, meshId, on, level, tone,
                                      rgb, seqNo),
                     NoPayload)
    /\ UNCHANGED <<clientVars, envVars, topoVars, sessVars, lanLoad>>

(* -------------------------- enqueueCommand ---------------------------- *)

\* A body chained onto the promise before the chain's tail instead of the
\* tail itself.
chainTail_stale ==
    IF commandChain = 0 THEN 0 ELSE cmds[commandChain].prev

\* The promise a new command body is chained onto: this.commandChain.
chainTail == commandChain

\* enqueueCommand(fn): the body is chained after the current tail, and the
\* chain's tail becomes this command.
EnqueueRequest(kind, dev, req, max) ==
    /\ Len(cmds) < max
    /\ cmds' = Append(cmds, [kind |-> kind, dev |-> dev, req |-> req,
                             pc |-> "queued",
                             prev |-> chainTail, awaiting |-> 0,
                             started |-> 0, connected |-> "na",
                             outcome |-> "none", settled |-> "pending",
                             called |-> FALSE, sockAtCall |-> FALSE,
                             loginAtCall |-> FALSE, inFlightAtCall |-> 0])
    /\ commandChain' = Len(cmds) + 1
    /\ UNCHANGED <<transportMode, loginCode, config, socket, seq, readBuffer,
                   heartbeatTimer, reconnectTimer, reconnectAttempt,
                   connectInFlight, shuttingDown>>
    /\ UNCHANGED <<attempts, sockets, intervals, timeouts, timerNo, timersFired, hbCount,
                   rxFrames, rxTorn, dispatched,
                   payloads, rawSeen>>

\* a command with the request that switches on, at half brightness, in white
Enqueue(kind, dev, max) == EnqueueRequest(kind, dev, DefaultRequest, max)

\* A chain whose link settles as soon as the body has been started, the
\* body's own promise not awaited.
PrevSettled_bodyNotAwaited(c) ==
    IF cmds[c].prev = 0 THEN TRUE ELSE cmds[cmds[c].prev].pc # "queued"

\* the promise a body was chained onto has settled
PrevSettled(c) ==
    IF cmds[c].prev = 0 THEN TRUE ELSE cmds[cmds[c].prev].pc = "done"

CmdRunnable(c) == cmds[c].pc = "queued" /\ PrevSettled(c)

\* the promise an awaiting body waits for has settled
CmdResumable(c) ==
    IF cmds[c].pc = "await" THEN attempts[cmds[c].awaiting].pc = "done"
    ELSE FALSE

\* a promise continuation is ready to run: it runs before any event
MicrotaskPending ==
    \E c \in 1..Len(cmds) : CmdRunnable(c) \/ CmdResumable(c)

(* -------------------------- ensureConnected --------------------------- *)

\* The branch ensureConnected() takes: "true" and "false" return at once,
\* "join" awaits the attempt in flight, "start" calls establishSocket().
ensureConnected_noInFlightGuard ==
    IF SocketOk THEN "true"
    ELSE IF ~HasLogin THEN "false"
    ELSE "start"

ensureConnected ==
    IF SocketOk THEN "true"
    ELSE IF ~HasLogin THEN "false"
    ELSE IF connectInFlight # 0 THEN "join"
    ELSE "start"

(* -------------------------- establishSocket --------------------------- *)

\* the mode of the first open: a remembered relaxed or tcp mode, else strict
firstMode_alwaysStrict == "tls_strict"

firstMode ==
    IF transportMode = "tls_relaxed" THEN "tls_relaxed"
    ELSE IF transportMode = "tcp" THEN "tcp"
    ELSE "tls_strict"

\* whether a failed open falls through to the next mode (the default path)
useLadder == transportMode \notin {"tls_relaxed", "tcp"}

\* the mode tried after mode m failed on the default path
nextMode_skipRelaxed(m) == "tcp"

nextMode(m) == IF m = "tls_strict" THEN "tls_relaxed" ELSE "tcp"

\* establishSocket() up to its first await: drop a stale socket, start the
\* first open.  The new attempt's promise becomes connectInFlight.
establishSocketBegin ==
    /\ attempts' = Append(attempts, [pc |-> firstMode, ladder |-> useLadder,
                                     cached |-> transportMode,
                                     tried |-> <<firstMode>>,
                                     outcome |-> "none"])
    /\ sockets' = Append(IF socket # 0 THEN DestroyLocal(sockets, socket)
                         ELSE sockets,
                         [st |-> "none", listeners |-> FALSE,
                          written |-> <<>>, inbound |-> <<>>])
    /\ rxTorn' = (rxTorn \/ Torn(socket))
    /\ socket' = 0
    /\ connectInFlight' = Len(attempts) + 1

\* the login write of establishSocket(): the stored code, when there is one
loginWrite ==
    IF loginCode # <<>>
    THEN <<[k |-> "login", data |-> loginCode, id |-> 0, seq |-> 0,
           seqBytes |-> <<>>]>>
    ELSE <<>>

\* a cache that remembers the mode the attempt tried first
cachedAfterOpen_firstTried(a) ==
    IF attempts[a].ladder THEN attempts[a].tried[1] ELSE transportMode

\* this.transportMode after an open of attempt a succeeded: the mode of
\* that open on the default path, untouched on the cached path
cachedAfterOpen(a) ==
    IF attempts[a].ladder THEN attempts[a].pc ELSE transportMode

\* An open succeeds: the mode is remembered on the default path, the socket
\* is installed, listeners attached, the login code written, the heartbeat
\* restarted, the reconnect state reset; then .finally() clears
\* connectInFlight.
OpenSucceeds(a) ==
    /\ ~MicrotaskPending
    /\ attempts[a].pc \in {"tls_strict", "tls_relaxed", "tcp"}
    /\ transportMode' = cachedAfterOpen(a)
    /\ attempts' = [attempts EXCEPT ![a].pc = "done", ![a].outcome = "ok"]
    /\ socket' = a
    /\ sockets' = [sockets EXCEPT ![a].st = "open", ![a].listeners = TRUE,
                                  ![a].written = loginWrite]
    /\ intervals' = (intervals \ {heartbeatTimer}) \cup {a}
    /\ heartbeatTimer' = a
    /\ reconnectAttempt' = 0
    /\ timeouts' = {t \in timeouts : t.id # reconnectTimer}
    /\ reconnectTimer' = 0
    /\ connectInFlight' = 0
    /\ UNCHANGED <<commandChain, loginCode, config, seq, readBuffer,
                   shuttingDown, cmds, timerNo, timersFired, hbCount, rxFrames, rxTorn,
                   dispatched,
                   payloads, rawSeen>>

\* An open fails: on the default path the next mode is tried; otherwise the
\* attempt ends with this.socket = null, and .finally() clears
\* connectInFlight.
OpenFails(a) ==
    /\ ~MicrotaskPending
    /\ attempts[a].pc \in {"tls_strict", "tls_relaxed", "tcp"}
    /\ IF attempts[a].ladder /\ attempts[a].pc # "tcp"
       THEN /\ attempts' = [attempts EXCEPT
                              ![a].pc = nextMode(attempts[a].pc),
                              ![a].tried = Append(@, nextMode(attempts[a].pc))]
            /\ UNCHANGED <<socket, connectInFlight>>
       ELSE /\ attempts' = [attempts EXCEPT ![a].pc = "done",
                                            ![a].outcome = "fail"]
            /\ socket' = 0
            /\ connectInFlight' = 0
    /\ UNCHANGED <<transportMode, commandChain, loginCode, config, seq,
                   readBuffer, heartbeatTimer, reconnectTimer,
                   reconnectAttempt, shuttingDown>>
    /\ UNCHANGED <<cmds, sockets, intervals, timeouts, timerNo, timersFired, hbCount,
                   rxFrames, rxTorn, dispatched,
                   payloads, rawSeen>>

(* --------------------------- command bodies --------------------------- *)

\* Math.round(x) of a number given in tenths
round10(tenths) == (tenths + 5) \div 10

\* hkBrightnessToPct100Byte(hkBrightness), hkBrightness in tenths
hkBrightnessToPct100Byte(tenths) ==
    LET hk == clampNumber(round10(tenths), 0, 100)
    IN  IF hk <= 0 THEN 0 ELSE clampNumber(hk, 1, 100)

\* the packet a command body builds with sequence number n: setSwitchState
\* a power packet, setBrightness a combo packet in white at the level of the
\* brightness given, setColor a combo packet in the colour given at the
\* level of the brightness given, or of 100 when none is given (a brightness
\* that is NaN makes both on flag and level 0)
commandPacket(rec, n) ==
    LET lan == lanFields(rec.dev)
        given == rec.req.brightness
    IN  CASE rec.kind = "power" ->
                buildPowerPacket(lan.switch_controller, lan.mesh_id,
                                 rec.req.on, n)
          [] rec.kind = "brightness" ->
                LET clamped == clampNumber(given.tenths, 0, 1000)
                IN  buildComboPacket(lan.switch_controller, lan.mesh_id,
                                     clamped > 0,
                                     hkBrightnessToPct100Byte(clamped), 254,
                                     <<255, 255, 255>>, n)
          [] OTHER ->
                LET hkBrightness ==
                        CASE given.k = "none" -> 100
                          [] given.k = "nan" -> 0
                          [] OTHER -> clampNumber(round10(given.tenths), 0, 100)
                IN  buildComboPacket(lan.switch_controller, lan.mesh_id,
                                     hkBrightness > 0,
                                     hkBrightnessToPct100Byte(hkBrightness * 10),
                                     254, rec.req.rgb, n)

\* What a command body does once ensureConnected() has returned: the checks
\* of setSwitchState / setBrightness / setColor in source order.
commandTail(c, connected) ==
    IF ~connected \/ ~SocketOk THEN "notready"
    ELSE IF ~findDevice(cmds[c].dev) THEN "nodevice"
    ELSE IF ~hasLanFields(cmds[c].dev) THEN "nolan"
    ELSE IF cmds[c].kind = "brightness" /\ cmds[c].req.brightness.k # "num"
    THEN "invalid"
    ELSE IF lanFields(cmds[c].dev).mesh_id \notin 0..65535 THEN "threw"
    ELSE "written"

\* A body that, having written its packet, leaves its promise pending for
\* an acknowledgement.
Finish_awaitsAck(c, rec, outcome, connected) ==
    /\ cmds' = [cmds EXCEPT ![c] = [rec EXCEPT !.pc = "done",
                                               !.outcome = outcome,
                                               !.connected = connected,
                                               !.settled =
                                                   CASE outcome = "written"
                                                            -> "pending"
                                                     [] outcome = "threw"
                                                            -> "rejected"
                                                     [] OTHER -> "resolved"]]
    /\ seq' = IF outcome \in {"written", "threw"} THEN nextSeq(seq) ELSE seq
    /\ sockets' = IF outcome = "written"
                  THEN SocketWrite(sockets, socket,
                           [k |-> "cmd",
                            data |-> commandPacket(rec, nextSeq(seq)),
                            id |-> c, seq |-> nextSeq(seq),
                            seqBytes |-> writeUInt16BE(nextSeq(seq))])
                  ELSE sockets

\* The body ends.  A body that passed every check takes the next sequence
\* number and builds its packet; if the builder throws (a mesh index that
\* does not fit two bytes) the wrapper rejects the promise, otherwise the
\* packet is written to this.socket and the wrapper resolves the promise,
\* as it does for a body that returned at a check.
Finish(c, rec, outcome, connected) ==
    /\ cmds' = [cmds EXCEPT ![c] = [rec EXCEPT !.pc = "done",
                                               !.outcome = outcome,
                                               !.connected = connected,
                                               !.settled =
                                                   IF outcome = "threw"
                                                   THEN "rejected"
                                                   ELSE "resolved"]]
    /\ seq' = IF outcome \in {"written", "threw"} THEN nextSeq(seq) ELSE seq
    /\ sockets' = IF outcome = "written"
                  THEN SocketWrite(sockets, socket,
                           [k |-> "cmd",
                            data |-> commandPacket(rec, nextSeq(seq)),
                            id |-> c, seq |-> nextSeq(seq),
                            seqBytes |-> writeUInt16BE(nextSeq(seq))])
                  ELSE sockets

\* the command's record with what its body saw when it called
\* ensureConnected(): a live socket, a login code, an attempt in flight
atCall(c) ==
    [cmds[c] EXCEPT !.called = TRUE, !.sockAtCall = SocketOk,
                    !.loginAtCall = HasLogin,
                    !.inFlightAtCall = connectInFlight]

\* A queued body starts when the promise it was chained onto has settled, and
\* runs to its end or to the await of a connect attempt.
CmdRun(c) ==
    /\ CmdRunnable(c)
    /\ IF config = 0
       THEN /\ Finish(c, cmds[c], "noconfig", "na")
            /\ UNCHANGED <<attempts, socket, connectInFlight, rxTorn>>
       ELSE CASE ensureConnected = "true" ->
                    /\ Finish(c, atCall(c), commandTail(c, TRUE), "true")
                    /\ UNCHANGED <<attempts, socket, connectInFlight, rxTorn>>
              [] ensureConnected = "false" ->
                    /\ Finish(c, atCall(c), commandTail(c, FALSE), "false")
                    /\ UNCHANGED <<attempts, socket, connectInFlight, rxTorn>>
              [] ensureConnected = "join" ->
                    /\ cmds' = [cmds EXCEPT ![c] =
                                   [atCall(c) EXCEPT
                                      !.pc = "await",
                                      !.awaiting = connectInFlight]]
                    /\ UNCHANGED <<attempts, socket, connectInFlight, rxTorn,
                                   seq, sockets>>
              [] ensureConnected = "start" ->
                    /\ establishSocketBegin
                    /\ cmds' = [cmds EXCEPT ![c] =
                                   [atCall(c) EXCEPT
                                      !.pc = "await",
                                      !.awaiting = Len(attempts) + 1,
                                      !.started = @ + 1]]
                    /\ UNCHANGED seq
    /\ UNCHANGED <<transportMode, commandChain, loginCode, config, readBuffer,
                   heartbeatTimer, reconnectTimer, reconnectAttempt,
                   shuttingDown>>
    /\ UNCHANGED <<intervals, timeouts, timerNo, timersFired, hbCount, rxFrames, dispatched,
                   payloads, rawSeen>>

\* A body that, finding no socket after the attempt, asks for another one.
CmdResume_retry(c) ==
    /\ CmdResumable(c)
    /\ IF SocketOk \/ ~HasLogin \/ connectInFlight # 0
       THEN /\ Finish(c, cmds[c], commandTail(c, SocketOk),
                      IF SocketOk THEN "true" ELSE "false")
            /\ UNCHANGED <<attempts, socket, connectInFlight, rxTorn>>
       ELSE /\ establishSocketBegin
            /\ cmds' = [cmds EXCEPT ![c].awaiting = Len(attempts) + 1,
                                    ![c].started = @ + 1]
            /\ UNCHANGED seq
    /\ UNCHANGED <<transportMode, commandChain, loginCode, config, readBuffer,
                   heartbeatTimer, reconnectTimer, reconnectAttempt,
                   shuttingDown>>
    /\ UNCHANGED <<intervals, timeouts, timerNo, timersFired, hbCount, rxFrames, dispatched,
                   payloads, rawSeen>>

\* The attempt a body awaits has settled: ensureConnected() returns whether
\* there is a live socket, and the body goes on.
CmdResume(c) ==
    /\ CmdResumable(c)
    /\ Finish(c, cmds[c], commandTail(c, SocketOk),
              IF SocketOk THEN "true" ELSE "false")
    /\ UNCHANGED <<attempts, socket, connectInFlight, rxTorn>>
    /\ UNCHANGED <<transportMode, commandChain, loginCode, config, readBuffer,
                   heartbeatTimer, reconnectTimer, reconnectAttempt,
                   shuttingDown>>
    /\ UNCHANGED <<intervals, timeouts, timerNo, timersFired, hbCount, rxFrames, dispatched,
                   payloads, rawSeen>>

(* ------------------------ connect / disconnect ------------------------ *)

\* connect(loginCode, config)
Connect(lc) ==
    /\ ~MicrotaskPending
    /\ shuttingDown' = FALSE
    /\ loginCode' = lc
    /\ config' = 1
    /\ UNCHANGED <<transportMode, commandChain, socket, seq, readBuffer,
                   heartbeatTimer, reconnectTimer, reconnectAttempt,
                   connectInFlight>>
    /\ UNCHANGED envVars

\* disconnect() that leaves the reconnect attempt counter as it is
Disconnect_keepAttempts ==
    /\ ~MicrotaskPending
    /\ shuttingDown' = TRUE
    /\ timeouts' = {t \in timeouts : t.id # reconnectTimer}
    /\ reconnectTimer' = 0
    /\ intervals' = intervals \ {heartbeatTimer}
    /\ heartbeatTimer' = 0
    /\ sockets' = IF socket # 0 THEN DestroyLocal(sockets, socket) ELSE sockets
    /\ rxTorn' = (rxTorn \/ Torn(socket))
    /\ socket' = 0
    /\ UNCHANGED <<transportMode, commandChain, loginCode, config, seq,
                   readBuffer, connectInFlight, reconnectAttempt>>
    /\ UNCHANGED <<cmds, attempts, timerNo, timersFired, hbCount, rxFrames,
                   dispatched, payloads, rawSeen>>

\* disconnect() that forgets the timer handle without clearing the timer
Disconnect_keepTimer ==
    /\ ~MicrotaskPending
    /\ shuttingDown' = TRUE
    /\ reconnectTimer' = 0
    /\ reconnectAttempt' = 0
    /\ intervals' = intervals \ {heartbeatTimer}
    /\ heartbeatTimer' = 0
    /\ sockets' = IF socket # 0 THEN DestroyLocal(sockets, socket) ELSE sockets
    /\ rxTorn' = (rxTorn \/ Torn(socket))
    /\ socket' = 0
    /\ UNCHANGED <<transportMode, commandChain, loginCode, config, seq,
                   readBuffer, connectInFlight>>
    /\ UNCHANGED <<cmds, attempts, timeouts, timerNo, timersFired, hbCount, rxFrames,
                   dispatched,
                   payloads, rawSeen>>

\* disconnect()
Disconnect ==
    /\ ~MicrotaskPending
    /\ shuttingDown' = TRUE
    /\ timeouts' = {t \in timeouts : t.id # reconnectTimer}
    /\ reconnectTimer' = 0
    /\ reconnectAttempt' = 0
    /\ intervals' = intervals \ {heartbeatTimer}
    /\ heartbeatTimer' = 0
    /\ sockets' = IF socket # 0 THEN DestroyLocal(sockets, socket) ELSE sockets
    /\ rxTorn' = (rxTorn \/ Torn(socket))
    /\ socket' = 0
    /\ UNCHANGED <<transportMode, commandChain, loginCode, config, seq,
                   readBuffer, connectInFlight>>
    /\ UNCHANGED <<cmds, attempts, timerNo, timersFired, hbCount, rxFrames, dispatched,
                   payloads, rawSeen>>

(* --------------------------- socket events ---------------------------- *)

\* The peer or the network ends an open socket: it is destroyed at once and
\* its 'close' event is emitted later.
SocketDrop(a) ==
    /\ ~MicrotaskPending
    /\ sockets[a].st = "open"
    /\ sockets' = [sockets EXCEPT ![a].st = "closing"]
    /\ UNCHANGED clientVars
    /\ UNCHANGED <<cmds, attempts, intervals, timeouts, timerNo, timersFired, hbCount,
                   rxFrames, rxTorn, dispatched,
                   payloads, rawSeen>>

\* The 'close' event of a destroyed socket.  If the listeners are still
\* attached the handler of attachSocketListeners runs.
CloseEvent(a) ==
    /\ ~MicrotaskPending
    /\ sockets[a].st = "closing"
    /\ sockets' = [sockets EXCEPT ![a].st = "closed", ![a].listeners = FALSE]
    /\ rxTorn' = (rxTorn \/ (sockets[a].listeners /\ Torn(a)))
    /\ IF sockets[a].listeners
       THEN /\ intervals' = intervals \ {heartbeatTimer}
            /\ heartbeatTimer' = 0
            /\ socket' = IF socket = a THEN 0 ELSE socket
            /\ reconnectAttempt' = 0
            /\ timeouts' = {t \in timeouts : t.id # reconnectTimer}
            /\ reconnectTimer' = 0
       ELSE UNCHANGED <<intervals, heartbeatTimer, socket, reconnectAttempt,
                        timeouts, reconnectTimer>>
    /\ UNCHANGED <<transportMode, commandChain, loginCode, config, seq,
                   readBuffer, connectInFlight, shuttingDown>>
    /\ UNCHANGED <<cmds, attempts, timerNo, timersFired, hbCount, rxFrames, dispatched,
                   payloads, rawSeen>>

\* A tick of a live heartbeat interval (startHeartbeat's callback).
HeartbeatTick(h) ==
    /\ ~MicrotaskPending
    /\ h \in intervals
    /\ hbCount < MaxHeartbeats
    /\ hbCount' = hbCount + 1
    /\ sockets' = IF SocketOk
                  THEN SocketWrite(sockets, socket,
                           [k |-> "hb", data |-> HeartbeatFrame, id |-> 0,
                            seq |-> 0, seqBytes |-> <<>>])
                  ELSE sockets
    /\ UNCHANGED clientVars
    /\ UNCHANGED <<cmds, attempts, intervals, timeouts, timerNo, timersFired, rxFrames,
                   rxTorn, dispatched,
                   payloads, rawSeen>>

(* ------------------------------ framing ------------------------------- *)

\* Buffer.readUInt32BE(i), with i counted from 1
readUInt32BE(b, i) ==
    b[i] * 16777216 + b[i + 1] * 65536 + b[i + 2] * 256 + b[i + 3]

\* the bytes of a frame on the wire: [type][length][payload]
encodeFrame(f) == <<f.type>> \o u32be(Len(f.body)) \o f.body

\* how processIncoming routes an extracted frame: an acknowledgement is
\* logged, every other frame goes to handleIncomingFrame
route(type, body) ==
    IF type = AckType /\ Len(body) >= AckMinLen THEN "ack" ELSE "frame"

\* A parser that takes a frame as soon as its header is there.
frameComplete_headerOnly(buf, total) == TRUE

\* the frame at the head of the buffer has arrived in full
frameComplete(buf, total) == Len(buf) >= total

\* Whether handling this frame ends the loop of processIncoming() before
\* the frame is cut off the buffer: handleIncomingFrame() calls the
\* subscriber outside any try/catch, so its throw leaves the loop and the
\* 'data' listener.
endsLoop(frame) == frame.route = "frame" /\ deviceUpdateCb = "throws"

\* processIncoming(): the frames extracted from the buffer, each handed to
\* its handler, and what is left
RECURSIVE processIncoming(_)
processIncoming(buf) ==
    IF Len(buf) < HeaderLen THEN [out |-> <<>>, buf |-> buf]
    ELSE LET type == buf[1]
             total == HeaderLen + readUInt32BE(buf, 2)
         IN  IF ~frameComplete(buf, total) THEN [out |-> <<>>, buf |-> buf]
             ELSE LET top == IF total <= Len(buf) THEN total ELSE Len(buf)
                      body == SubSeq(buf, HeaderLen + 1, top)
                      frame == [route |-> route(type, body), type |-> type,
                                body |-> body]
                      rest == processIncoming(SubSeq(buf, top + 1, Len(buf)))
                  IN  IF endsLoop(frame)
                      THEN [out |-> <<frame>>, buf |-> buf]
                      ELSE [out |-> <<frame>> \o rest.out, buf |-> rest.buf]

\* The server writes one frame to an open socket.
ServerSend(a, type, body) ==
    /\ ~MicrotaskPending
    /\ Len(rxFrames) < MaxFrames
    /\ sockets[a].st = "open"
    /\ sockets' = [sockets EXCEPT ![a].inbound =
                       @ \o encodeFrame([type |-> type, body |-> body])]
    /\ rxFrames' = Append(rxFrames, [type |-> type, body |-> body])
    /\ UNCHANGED clientVars
    /\ UNCHANGED <<cmds, attempts, intervals, timeouts, timerNo, timersFired, hbCount,
                   rxTorn, dispatched,
                   payloads, rawSeen>>

(* ----------------------- decoding state updates --------------------- *)

\* Map.get(key): "" stands for no entry
mapGet(m, key) == IF key \in DOMAIN m THEN m[key] ELSE ""

\* parseLanSwitchUpdate(frame), reading the two topology fields it is given
parseLanSwitchUpdate(frame, devicesOf, homeOf) ==
    IF Len(frame) < LanMinLen THEN NoParse
    ELSE LET controllerId == readUInt32BE(frame, 1)
             homeId == mapGet(homeOf, controllerId)
         IN  IF homeId = "" THEN NoParse
             ELSE LET devices == IF homeId \in DOMAIN devicesOf
                                 THEN devicesOf[homeId] ELSE <<>>
                  IN  IF devices = <<>> THEN NoParse
                      ELSE IF frame[14] # LanTypeByte THEN NoParse
                      ELSE LET deviceIndex == frame[22]
                               on == frame[28] > 0
                           IN  Payload("lan", controllerId,
                                   IF deviceIndex < Len(devices)
                                   THEN devices[deviceIndex + 1]
                                   ELSE "undefined",
                                   on,
                                   IF on THEN clampNumber(frame[29], 1, 100)
                                   ELSE 0)

\* Buffer.indexOf(marker), counted from 1; 0 when the marker is not there
indexOf(frame, marker) ==
    LET at == {i \in 1..(Len(frame) - Len(marker) + 1) :
                  SubSeq(frame, i, i + Len(marker) - 1) = marker}
    IN  IF at = {} THEN 0 ELSE CHOOSE i \in at : \A j \in at : i <= j

\* parseSwitchStateFrame(frame) with the controller's device looked up
parseSwitchStateFrame(frame, deviceOf) ==
    IF Len(frame) < LegacyMinLen THEN NoParse
    ELSE LET controllerId == readUInt32BE(frame, 1)
             idx == indexOf(frame, LegacyMarker)
         IN  IF idx = 0 THEN NoParse
             ELSE IF idx + Len(LegacyMarker) >= Len(frame) THEN NoParse
             ELSE LET onFlag == frame[idx + Len(LegacyMarker)]
                      levelByte == frame[idx + Len(LegacyMarker) + 1]
                      on == onFlag = 1 /\ levelByte > 0
                  IN  Payload("legacy", controllerId,
                          IF controllerId \in DOMAIN deviceOf
                          THEN deviceOf[controllerId] ELSE "undefined",
                          on,
                          IF on THEN clampNumber(levelByte, 1, 100) ELSE 0)

\* A frame handler that falls back to the controller-level parser for both
\* frame types.
handleIncomingFrame_anyType(frame, type, devicesOf, homeOf, deviceOf) ==
    IF type \notin LanUpdateTypes THEN RawPayload
    ELSE LET lanParsed == parseLanSwitchUpdate(frame, devicesOf, homeOf)
         IN  IF lanParsed # NoParse THEN lanParsed
             ELSE LET parsed == parseSwitchStateFrame(frame, deviceOf)
                  IN  IF parsed # NoParse THEN parsed ELSE RawPayload

\* handleIncomingFrame(frame, type): the payload for the subscriber
handleIncomingFrame(frame, type, devicesOf, homeOf, deviceOf) ==
    IF type \notin LanUpdateTypes THEN RawPayload
    ELSE LET lanParsed == parseLanSwitchUpdate(frame, devicesOf, homeOf)
         IN  IF lanParsed # NoParse THEN lanParsed
             ELSE IF type # LegacyType THEN RawPayload
             ELSE LET parsed == parseSwitchStateFrame(frame, deviceOf)
                  IN  IF parsed # NoParse THEN parsed ELSE RawPayload

\* parseLanSwitchUpdate is called with a frame of a known controller
\* whose state byte and level byte are the ones given
ParseLanSwitchUpdate(stateByte, levelByte) ==
    /\ codec' = Call("parseLanSwitchUpdate",
                     Given(0, stateByte > 0, levelByte, 0, <<0, 0, 0>>), <<>>,
                     parseLanSwitchUpdate(
                         LanBody(1, LanTypeByte, 0, stateByte, levelByte),
                         [h \in HomeIds |-> <<"a", "b">>],
                         [c \in ControllerIds |-> "h1"]))
    /\ UNCHANGED <<clientVars, envVars, topoVars, sessVars, lanLoad>>

\* parseSwitchStateFrame is called with a frame that carries the marker
\* and the on flag and level byte given
ParseSwitchStateFrame(onFlag, levelByte) ==
    /\ codec' = Call("parseSwitchStateFrame",
                     Given(0, onFlag = 1, levelByte, 0, <<0, 0, 0>>), <<>>,
                     parseSwitchStateFrame(
                         LegacyBody(2, onFlag, levelByte),
                         [c \in ControllerIds |-> "c"]))
    /\ UNCHANGED <<clientVars, envVars, topoVars, sessVars, lanLoad>>

\* the payloads of the frames one processIncoming() run extracted
payloadsOf(out) ==
    [i \in DOMAIN out |->
        IF out[i].route = "ack" THEN NoPayload
        ELSE handleIncomingFrame(out[i].body, out[i].type, homeDevices,
                                 switchIdToHomeId, controllerToDevice)]

\* A fan-out that ends at the first listener that throws.
fanOut_stopsAtThrow(listeners) ==
    LET throwers == {j \in DOMAIN listeners : listeners[j] = "throws"}
        last == IF throwers = {} THEN Len(listeners)
                ELSE CHOOSE j \in throwers : \A k \in throwers : j <= k
    IN  [j \in 1..last |-> j]

\* the listeners handleIncomingFrame calls with a frame, in order: each call
\* sits in its own try/catch, so a throw ends that call only
fanOut(listeners) == [j \in DOMAIN listeners |-> j]

\* the listeners called for each frame one processIncoming() run extracted
rawSeenOf(out) ==
    [i \in DOMAIN out |->
        IF out[i].route = "ack" THEN <<>> ELSE fanOut(rawFrameListeners)]

\* The 'data' event: the next n bytes arrive, are appended to the read
\* buffer, and processIncoming() runs.
Data(a, n) ==
    /\ ~MicrotaskPending
    /\ sockets[a].st = "open"
    /\ sockets[a].listeners
    /\ n \in 1..Len(sockets[a].inbound)
    /\ LET r == processIncoming(readBuffer \o SubSeq(sockets[a].inbound, 1, n))
       IN  /\ readBuffer' = r.buf
           /\ dispatched' = dispatched \o r.out
           /\ payloads' = payloads \o payloadsOf(r.out)
           /\ rawSeen' = rawSeen \o rawSeenOf(r.out)
    /\ sockets' = [sockets EXCEPT ![a].inbound =
                       SubSeq(@, n + 1, Len(@))]
    /\ UNCHANGED <<transportMode, commandChain, loginCode, config, socket,
                   seq, heartbeatTimer, reconnectTimer, reconnectAttempt,
                   connectInFlight, shuttingDown>>
    /\ UNCHANGED <<cmds, attempts, intervals, timeouts, timerNo, timersFired, hbCount,
                   rxFrames, rxTorn>>

(* --------------------------- LAN topology ------------------------------ *)

\* an applyLanTopology that keeps the slot arrays it had
homeDevicesOf_stale(topology) == homeDevices

\* topology.homeDevices ?? {}
homeDevicesOf(topology) == topology.homeDevices

\* the Map built from the entries whose key is a finite number
switchMapOf(topology) ==
    [c \in ControllerIds |->
        LET found == {e \in topology.switchIdToHomeId :
                         e.key.finite /\ e.key.num = c}
        IN  IF found = {} THEN "" ELSE (CHOOSE e \in found : TRUE).homeId]

\* applyLanTopology(topology)
ApplyLanTopology(topology) ==
    /\ ~MicrotaskPending
    /\ Len(applied) < MaxTopologies
    /\ homeDevices' = homeDevicesOf(topology)
    /\ switchIdToHomeId' = switchMapOf(topology)
    /\ applied' = Append(applied, topology)
    /\ UNCHANGED <<controllerToDevice, rawFrameListeners, deviceUpdateCb>>
    /\ UNCHANGED <<clientVars, envVars, sessVars, lanLoad, codec>>

\* registerSwitchMapping(controllerId, deviceId)
RegisterSwitchMapping(controllerId, deviceId) ==
    /\ ~MicrotaskPending
    /\ controllerToDevice[controllerId] # deviceId
    /\ controllerToDevice' =
           [controllerToDevice EXCEPT ![controllerId] = deviceId]
    /\ UNCHANGED <<homeDevices, switchIdToHomeId, applied, rawFrameListeners,
                   deviceUpdateCb>>
    /\ UNCHANGED <<clientVars, envVars, sessVars, lanLoad, codec>>

\* onRawFrame(listener), with a listener that returns or one that throws
OnRawFrame(kind) ==
    /\ ~MicrotaskPending
    /\ Len(rawFrameListeners) < MaxListeners
    /\ rawFrameListeners' = Append(rawFrameListeners, kind)
    /\ UNCHANGED <<homeDevices, switchIdToHomeId, controllerToDevice, applied,
                   deviceUpdateCb>>
    /\ UNCHANGED <<clientVars, envVars, sessVars, lanLoad, codec>>

\* onDeviceUpdate(cb), with a subscriber that returns or one that throws
OnDeviceUpdate(kind) ==
    /\ ~MicrotaskPending
    /\ deviceUpdateCb # kind
    /\ deviceUpdateCb' = kind
    /\ UNCHANGED <<homeDevices, switchIdToHomeId, controllerToDevice, applied,
                   rawFrameListeners>>
    /\ UNCHANGED <<clientVars, envVars, sessVars, lanLoad, codec>>

(* ------------------------- loadConfiguration -------------------------- *)

\* Number(x) is a number
isNumber(x) == x.k \in {"num", "str"}

\* A mesh index without the multiples of 1000.
meshIndex_mod1000(mesh, bulb) ==
    IF isNumber(mesh.id) /\ isNumber(bulb.deviceID) /\ mesh.id.n # 0
    THEN [def |-> TRUE, v |-> (bulb.deviceID.n % mesh.id.n) % 1000]
    ELSE [def |-> FALSE, v |-> 0]

\* meshIndex of a record: undefined unless mesh id and device id are numbers
\* and the mesh id is not 0 (ids are not negative here, where % of the
\* source and % of the model agree)
meshIndex(mesh, bulb) ==
    IF isNumber(mesh.id) /\ isNumber(bulb.deviceID) /\ mesh.id.n # 0
    THEN LET mod == bulb.deviceID.n % mesh.id.n
         IN  [def |-> TRUE, v |-> (mod % 1000) + (mod \div 1000) * 256]
    ELSE [def |-> FALSE, v |-> 0]

\* while (homeDevices.length <= meshIndex) push(''); homeDevices[meshIndex] = id
setSlot(arr, idx, id) ==
    [i \in 1..(IF Len(arr) > idx + 1 THEN Len(arr) ELSE idx + 1) |->
        IF i = idx + 1 THEN id
        ELSE IF i <= Len(arr) THEN arr[i] ELSE ""]

\* device_id ?? id, the id falling back to the MAC or a mesh-based name
deviceIdOf(bulb) == IF bulb.deviceID.k = "none" THEN "mac" ELSE bulb.deviceID.s

\* A controller map in which the last home to claim an id keeps it.
claimHome_lastWins(map, c, homeId) == [map EXCEPT ![c] = homeId]

\* if (!this.switchIdToHomeId[c]) this.switchIdToHomeId[c] = homeId
claimHome(map, c, homeId) ==
    IF map[c] = "" THEN [map EXCEPT ![c] = homeId] ELSE map

\* the switchID is a finite number above 0
validController(sid) == sid.has /\ sid.finite /\ sid.num > 0

\* the body of the loop over the bulbsArray, for one record
bulbStep(acc, mesh, bulb) ==
    LET mi == meshIndex(mesh, bulb)
        sid == bulb.switchID
    IN  [homeDevices |->
             IF mi.def /\ bulb.deviceID.k # "none" /\ bulb.deviceID.s # ""
             THEN setSlot(acc.homeDevices, mi.v, bulb.deviceID.s)
             ELSE acc.homeDevices,
         switchIdToHomeId |->
             IF validController(sid)
             THEN claimHome(acc.switchIdToHomeId, sid.num, mesh.id.s)
             ELSE acc.switchIdToHomeId,
         homeControllers |->
             IF validController(sid)
                  /\ \A j \in DOMAIN acc.homeControllers :
                         acc.homeControllers[j] # sid.num
             THEN Append(acc.homeControllers, sid.num)
             ELSE acc.homeControllers,
         devicesForMesh |->
             Append(acc.devicesForMesh,
                    [switch_controller |-> sid, deviceId |-> deviceIdOf(bulb)])]

\* the loop over the bulbsArray, from record i on
RECURSIVE bulbsFrom(_, _, _)
bulbsFrom(acc, mesh, i) ==
    IF i > Len(mesh.bulbsArray) THEN acc
    ELSE bulbsFrom(bulbStep(acc, mesh, mesh.bulbsArray[i]), mesh, i + 1)

\* Map.set(key, value)
mapSet(m, key, value) ==
    [x \in DOMAIN m \cup {key} |-> IF x = key THEN value ELSE m[x]]

\* registerSwitchMapping for the devices of a mesh, from device i on
RECURSIVE registerFrom(_, _, _)
registerFrom(map, devs, i) ==
    IF i > Len(devs) THEN map
    ELSE registerFrom(
             IF devs[i].switch_controller.has /\ devs[i].deviceId # ""
                  /\ devs[i].switch_controller.finite
             THEN mapSet(map, devs[i].switch_controller.num, devs[i].deviceId)
             ELSE map,
             devs, i + 1)

\* loadConfiguration() once getCloudConfig has returned: the caches are
\* reset and the properties of the first mesh are requested
LoadConfiguration(c) ==
    /\ ~MicrotaskPending
    /\ lanLoad.pos \notin 1..Len(lanLoad.cfg)
    /\ lanLoad.loads < MaxReloads
    /\ lanLoad' = [NoLanLoad EXCEPT !.cfg = c, !.pos = 1,
                                    !.loads = lanLoad.loads + 1,
                                    !.before = DecodingState]
    /\ UNCHANGED <<clientVars, envVars, topoVars, sessVars, codec>>

\* The properties of the mesh at pos have arrived, or the request failed:
\* the mesh's records are gone through, its maps stored, its devices
\* registered with the TcpClient, and the next mesh is asked for; after the
\* last mesh loadConfiguration returns.
MeshLoaded(ok) ==
    /\ ~MicrotaskPending
    /\ lanLoad.pos \in 1..Len(lanLoad.cfg)
    /\ LET mesh == lanLoad.cfg[lanLoad.pos]
           acc == bulbsFrom([homeDevices |-> <<>>, homeControllers |-> <<>>,
                             switchIdToHomeId |-> lanLoad.switchIdToHomeId,
                             devicesForMesh |-> <<>>], mesh, 1)
       IN  IF ok
           THEN /\ lanLoad' =
                      [lanLoad EXCEPT
                         !.pos = @ + 1,
                         !.loaded = @ \cup {lanLoad.pos},
                         !.switchIdToHomeId = acc.switchIdToHomeId,
                         !.homeDevices =
                             IF Len(acc.homeDevices) > 0
                             THEN [@ EXCEPT ![mesh.id.s] = acc.homeDevices]
                             ELSE @,
                         !.homeControllers =
                             IF Len(acc.homeControllers) > 0
                             THEN [@ EXCEPT ![mesh.id.s] = acc.homeControllers]
                             ELSE @]
                /\ controllerToDevice' =
                      registerFrom(controllerToDevice, acc.devicesForMesh, 1)
           ELSE /\ lanLoad' = [lanLoad EXCEPT !.pos = @ + 1]
                /\ UNCHANGED controllerToDevice
    /\ UNCHANGED <<homeDevices, switchIdToHomeId, applied, rawFrameListeners,
                   deviceUpdateCb>>
    /\ UNCHANGED <<clientVars, envVars, sessVars, codec>>

\* getLanTopology(): the caches, the controller map as a record by key
getLanTopology ==
    [homeDevices |-> lanLoad.homeDevices,
     switchIdToHomeId |->
         {[key |-> NumKey(c), homeId |-> lanLoad.switchIdToHomeId[c]] :
              c \in {x \in SwitchIds : lanLoad.switchIdToHomeId[x] # ""}}]

\* startTransport(config, loginCode) after a load: the topology is applied
\* and connect() stores login code and configuration
StartTransport ==
    /\ ~MicrotaskPending
    /\ lanLoad.loads > 0
    /\ lanLoad.pos = Len(lanLoad.cfg) + 1
    /\ Len(applied) < MaxTopologies
    /\ homeDevices' = homeDevicesOf(getLanTopology)
    /\ switchIdToHomeId' = switchMapOf(getLanTopology)
    /\ applied' = Append(applied, getLanTopology)
    /\ shuttingDown' = FALSE
    /\ loginCode' = LoginA
    /\ config' = 1
    /\ lanLoad' = [lanLoad EXCEPT !.pos = 0]
    /\ UNCHANGED <<controllerToDevice, rawFrameListeners, deviceUpdateCb>>
    /\ UNCHANGED <<transportMode, commandChain, socket, seq, readBuffer,
                   heartbeatTimer, reconnectTimer, reconnectAttempt,
                   connectInFlight>>
    /\ UNCHANGED <<envVars, sessVars, codec>>

(* -------------------------- scheduleReconnect ------------------------- *)

\* 2^n
RECURSIVE pow2(_)
pow2(n) == IF n = 0 THEN 1 ELSE 2 * pow2(n - 1)

\* a delay that doubles without a ceiling
reconnectDelay_uncapped(attempt) == 1000 * pow2(attempt)

\* Math.min(30_000, 1_000 * Math.pow(2, attempt))
reconnectDelay(attempt) ==
    IF 1000 * pow2(attempt) < 30000 THEN 1000 * pow2(attempt) ELSE 30000

\* whether scheduleReconnect() gets past its early returns
scheduleReconnectArms ==
    /\ ~shuttingDown
    /\ reconnectTimer = 0
    /\ HasLogin

\* scheduleReconnect(reason), called directly, while fewer than max timers
\* have been armed
ScheduleReconnectUpTo(max) ==
    /\ ~MicrotaskPending
    /\ timerNo < max
    /\ scheduleReconnectArms
    /\ timeouts' = timeouts \cup
                     {[id |-> timerNo + 1,
                       delay |-> reconnectDelay(reconnectAttempt)]}
    /\ reconnectTimer' = timerNo + 1
    /\ timerNo' = timerNo + 1
    /\ reconnectAttempt' = reconnectAttempt + 1
    /\ UNCHANGED <<transportMode, commandChain, loginCode, config, socket,
                   seq, readBuffer, heartbeatTimer, connectInFlight,
                   shuttingDown>>
    /\ UNCHANGED <<cmds, attempts, sockets, intervals, timersFired, hbCount,
                   rxFrames, rxTorn, dispatched,
                   payloads, rawSeen>>

ScheduleReconnect == ScheduleReconnectUpTo(MaxTimers)

\* The reconnect timer fires: the handle is forgotten and ensureConnected()
\* is called, its result ignored.  ensureConnected() never rejects (every
\* failure of establishSocket is caught inside it), so the rejection handler
\* that would call scheduleReconnect('retry') never runs.
TimerFire(t) ==
    /\ ~MicrotaskPending
    /\ t \in timeouts
    /\ timeouts' = timeouts \ {t}
    /\ reconnectTimer' = 0
    /\ IF ensureConnected = "start"
       THEN establishSocketBegin
       ELSE UNCHANGED <<attempts, sockets, rxTorn, socket, connectInFlight>>
    /\ UNCHANGED <<transportMode, commandChain, loginCode, config, seq,
                   readBuffer, heartbeatTimer, reconnectAttempt, shuttingDown>>
    /\ timersFired' = timersFired + 1
    /\ UNCHANGED <<cmds, intervals, timerNo, hbCount, rxFrames, dispatched,
                   payloads, rawSeen>>

(* ----------------------------- token store ---------------------------- *)

\* CyncTokenStore.load(): null when the file is missing or unreadable, or
\* when expiresAt is set and not after now
load(file) ==
    IF file = NoCred THEN NoCred
    ELSE IF file.exp.set /\ file.exp.at <= 0 THEN NoCred
    ELSE file

\* the token file after CyncTokenStore.save(data) ended as out
save(file, data, out) ==
    IF out = "ok" THEN data ELSE IF out = "torn" THEN NoCred ELSE file

(* ------------------------- the platform's load ------------------------ *)

\* loadCync() ends: by a return or in its catch block
EndLoad(fl) ==
    /\ spc' = "idle"
    /\ wrapper' = "none"
    /\ firstErr' = 0
    /\ cfg' = <<>>
    /\ meshIdx' = 0
    /\ flow' = fl

\* ensureLoggedIn() returned true: loadConfiguration() runs up to its first
\* await, the first getCloudConfig() call of the wrapper.  ensureSession()
\* throws when there is no session.
BeginConfiguration(fl, sess) ==
    IF sess = 0
    THEN EndLoad([fl EXCEPT !.cfgLoads = @ + 1, !.elAtLoad = fl.el])
    ELSE /\ spc' = "cfg"
         /\ wrapper' = "cfg"
         /\ firstErr' = 0
         /\ cfg' = <<>>
         /\ meshIdx' = 0
         /\ flow' = [fl EXCEPT !.cfgLoads = @ + 1, !.elAtLoad = fl.el,
                               !.w = [NoWrapper EXCEPT !.kind = "cfg",
                                                       !.calls = 1]]

\* a platform that goes on unless ensureLoggedIn() threw
proceeds_unlessThrown(loggedIn) == loggedIn # "threw"

\* loadCync() goes on to loadConfiguration() only when ensureLoggedIn()
\* returned true
proceeds(loggedIn) == loggedIn = "true"

\* loadCync() after ensureLoggedIn() settled as fl.el
AfterLogin(fl, sess) ==
    IF fl.el # "threw" /\ proceeds(fl.el)
    THEN BeginConfiguration(fl, sess)
    ELSE EndLoad(fl)

\* the first mesh at or after i whose product id is not marked unsupported;
\* Len(c) + 1 when there is none
nextProbe(c, i, uns) ==
    IF \E k \in i..Len(c) : c[k] \notin uns
    THEN CHOOSE k \in i..Len(c) :
             c[k] \notin uns /\ \A j \in i..(k - 1) : c[j] \in uns
    ELSE Len(c) + 1

\* getLanLoginCode() is not empty
hasLanLoginCode(td) == td # NoCred /\ td.lan # <<>>

\* The mesh loop of loadConfiguration() from mesh i on: meshes of an
\* unsupported product id are skipped, the next one is probed (the first
\* getDeviceProperties() call of the wrapper).  When no mesh is left
\* loadConfiguration() returns and the platform starts the transport if
\* there is a LAN login code.
ProbeFrom(c, i, uns, td, fl) ==
    IF nextProbe(c, i, uns) <= Len(c)
    THEN /\ spc' = "prop"
         /\ wrapper' = "prop"
         /\ firstErr' = 0
         /\ cfg' = c
         /\ meshIdx' = nextProbe(c, i, uns)
         /\ flow' = [fl EXCEPT !.w = [NoWrapper EXCEPT !.kind = "prop",
                                                       !.calls = 1]]
    ELSE EndLoad(IF hasLanLoginCode(td)
                 THEN [fl EXCEPT !.connects = @ + 1, !.elAtConnect = fl.el]
                 ELSE fl)

\* The platform calls loadCync(): ensureLoggedIn() awaits tokenStore.load().
LoadCync ==
    /\ spc = "idle"
    /\ hist.loads < MaxLoads
    /\ spc' = "load"
    /\ flow' = NoFlow
    /\ hist' = [hist EXCEPT !.loads = @ + 1]
    /\ UNCHANGED <<storeFile, tokenData, session, unsupported, twoFactor,
                   wrapper, firstErr, cfg, meshIdx, pending, issued,
                   lastStored>>
    /\ UNCHANGED <<clientVars, envVars, topoVars, lanLoad, codec>>

\* tokenStore.load() settled.  A stored credential is adopted and
\* ensureLoggedIn() returns true; otherwise the 2FA bootstrap runs: a code
\* is requested when none is configured, else the 2FA login is made.
TokenLoaded ==
    /\ spc = "load"
    /\ IF load(storeFile) # NoCred
       THEN /\ tokenData' = load(storeFile)
            /\ session' = load(storeFile).tok
            /\ lastStored' = load(storeFile)
            /\ AfterLogin([flow EXCEPT !.el = "true",
                                       !.stored = load(storeFile),
                                       !.elRefreshes = flow.r.n],
                          load(storeFile).tok)
       ELSE /\ spc' = IF twoFactor THEN "login2fa" ELSE "req2fa"
            /\ flow' = IF twoFactor
                       THEN [flow EXCEPT !.twoFaLogins = @ + 1]
                       ELSE [flow EXCEPT !.codeRequests = @ + 1]
            /\ UNCHANGED <<tokenData, session, lastStored, wrapper, firstErr,
                           cfg, meshIdx>>
    /\ UNCHANGED <<storeFile, unsupported, twoFactor, pending, issued, hist>>
    /\ UNCHANGED <<clientVars, envVars, topoVars, lanLoad, codec>>

\* sendTwoFactorCode() settled: ensureLoggedIn() returns false, or rejects
\* when the request failed.
CodeRequestReturns(ok) ==
    /\ spc = "req2fa"
    /\ AfterLogin([flow EXCEPT !.el = IF ok THEN "false" ELSE "threw"],
                  session)
    /\ UNCHANGED <<storeFile, tokenData, session, unsupported, twoFactor,
                   pending, issued, lastStored, hist>>
    /\ UNCHANGED <<clientVars, envVars, topoVars, lanLoad, codec>>

\* loginWithTwoFactor() settled.  On success submitTwoFactor() sets the
\* session; completeTwoFactorLogin() throws when the response has no
\* "authorize" field ("noauth"); otherwise the credential is built and
\* tokenStore.save() awaited.
TwoFactorLoginReturns(out, cred) ==
    /\ spc = "login2fa"
    /\ out = "ok" => cred.authorize # <<>>
    /\ out = "noauth" => cred.authorize = <<>>
    /\ IF out = "ok"
       THEN /\ issued < MaxTokens
            /\ session' = cred.tok
            /\ issued' = issued + 1
            /\ pending' = [cred |-> twoFactorTokenData(cred), via |-> "2fa",
                           out |-> "none"]
            /\ spc' = "save"
            /\ UNCHANGED <<flow, wrapper, firstErr, cfg, meshIdx>>
       ELSE /\ IF out = "noauth"
               THEN issued < MaxTokens /\ session' = issued + 1
                    /\ issued' = issued + 1
               ELSE UNCHANGED <<session, issued>>
            /\ pending' = NoPending
            /\ EndLoad([flow EXCEPT !.el = "threw"])
    /\ UNCHANGED <<storeFile, tokenData, unsupported, twoFactor, lastStored,
                   hist>>
    /\ UNCHANGED <<clientVars, envVars, topoVars, lanLoad, codec>>

(* ------------------------- refreshAccessToken ------------------------- *)

\* the call refreshAccessToken(stored) makes first, skipping the exchange
firstCall_passwordFirst(stored) == "pw"

\* the call refreshAccessToken(stored) makes first: the refresh-token
\* exchange when a refresh token is stored, else the password login
firstCall(stored) == IF stored.refresh THEN "exch" ELSE "pw"

\* refreshAccessToken(this.tokenData) up to its first await, called by a
\* wrapper whose first call threw 'Access-Token Expired'
BeginRefresh(fl) ==
    /\ spc' = firstCall(tokenData)
    /\ firstErr' = 1
    /\ flow' = [fl EXCEPT !.r = [NoRefresh EXCEPT
                                   !.n = fl.r.n + 1,
                                   !.hadRefresh = tokenData.refresh,
                                   !.order = <<firstCall(tokenData)>>,
                                   !.codeRequests = fl.codeRequests,
                                   !.twoFaLogins = fl.twoFaLogins]]
    /\ UNCHANGED <<wrapper, cfg, meshIdx>>

\* a wrapper returns or throws: the continuation of its caller is pending
WrapperReturns(fl) ==
    /\ spc' = "wret"
    /\ flow' = fl
    /\ UNCHANGED <<wrapper, firstErr, cfg, meshIdx>>

\* refreshAccessToken() returned to the wrapper: with a credential the
\* wrapper makes its second call, with null it throws the first error
RefreshReturned(ok, fl) ==
    IF ok
    THEN /\ spc' = IF wrapper = "cfg" THEN "cfg2" ELSE "prop2"
         /\ flow' = [fl EXCEPT !.w.calls = @ + 1, !.w.refreshed = "ok",
                               !.r.result = "ok"]
         /\ UNCHANGED <<wrapper, firstErr, cfg, meshIdx>>
    ELSE WrapperReturns([fl EXCEPT !.w.refreshed = "fail",
                                   !.w.result = "err1",
                                   !.r.result = "null"])

\* configClient.refreshAccessToken() settled: the new credential is built
\* from the stored one and tokenStore.save() awaited; a failure falls
\* through to the password login.
ExchangeReturns(ok, exp) ==
    /\ spc = "exch"
    /\ IF ok
       THEN /\ issued < MaxTokens
            /\ issued' = issued + 1
            /\ pending' = [cred |-> [tokenData EXCEPT
                                        !.tok = issued + 1,
                                        !.exp = IF exp.set THEN exp
                                                ELSE tokenData.exp],
                           via |-> "exch", out |-> "none"]
            /\ spc' = "save"
            /\ flow' = [flow EXCEPT !.r.exch = "ok"]
       ELSE /\ exp = NoExpiry
            /\ spc' = "pw"
            /\ flow' = [flow EXCEPT !.r.exch = "fail",
                                    !.r.order = Append(@, "pw")]
            /\ UNCHANGED <<issued, pending>>
    /\ UNCHANGED <<storeFile, tokenData, session, unsupported, twoFactor,
                   wrapper, firstErr, cfg, meshIdx, lastStored, hist>>
    /\ UNCHANGED <<clientVars, envVars, topoVars, lanLoad, codec>>

\* configClient.loginWithPassword() settled (loginWithPasswordForToken):
\* the credential is built and tokenStore.save() awaited; on a failure the
\* helper returns null and so does refreshAccessToken().
PasswordLoginReturns(ok, cred) ==
    /\ spc = "pw"
    /\ IF ok
       THEN /\ issued < MaxTokens
            /\ issued' = issued + 1
            /\ pending' = [cred |-> passwordTokenData(cred), via |-> "pw",
                           out |-> "none"]
            /\ spc' = "save"
            /\ flow' = [flow EXCEPT !.r.pw = "ok"]
            /\ UNCHANGED <<wrapper, firstErr, cfg, meshIdx>>
       ELSE /\ RefreshReturned(FALSE, [flow EXCEPT !.r.pw = "fail"])
            /\ UNCHANGED <<issued, pending>>
    /\ UNCHANGED <<storeFile, tokenData, session, unsupported, twoFactor,
                   lastStored, hist>>
    /\ UNCHANGED <<clientVars, envVars, topoVars, lanLoad, codec>>

(* ------------------------- saving a credential ------------------------ *)

\* tokenStore.save(next) settles: the file is written, or it is not
SaveSettles(out) ==
    /\ spc = "save"
    /\ storeFile' = save(storeFile, pending.cred, out)
    /\ lastStored' = IF out = "ok" THEN pending.cred ELSE lastStored
    /\ pending' = [pending EXCEPT !.out = out]
    /\ spc' = "saved"
    /\ UNCHANGED <<tokenData, session, unsupported, twoFactor, wrapper,
                   firstErr, cfg, meshIdx, issued, flow, hist>>
    /\ UNCHANGED <<clientVars, envVars, topoVars, lanLoad, codec>>

\* a credential adopted whether or not the save succeeded
adopts_evenUnsaved(out) == TRUE

\* whether the code after 'await this.tokenStore.save(next)' runs
adopts(out) == out = "ok"

\* The continuation of 'await tokenStore.save(next)'.  Saved: the credential
\* becomes this.tokenData and is applied.  Not saved: ensureLoggedIn()
\* rejects (2FA), the exchange falls through to the password login, the
\* password login returns null.
SaveContinues ==
    /\ spc = "saved"
    /\ pending' = NoPending
    /\ IF adopts(pending.out)
       THEN /\ tokenData' = pending.cred
            /\ session' = pending.cred.tok
       ELSE UNCHANGED <<tokenData, session>>
    /\ CASE pending.via = "2fa" ->
              IF adopts(pending.out)
              THEN AfterLogin([flow EXCEPT !.el = "true",
                                           !.elRefreshes = flow.r.n],
                              pending.cred.tok)
              ELSE AfterLogin([flow EXCEPT !.el = "threw"], session)
         [] pending.via = "exch" ->
              IF adopts(pending.out)
              THEN RefreshReturned(TRUE, [flow EXCEPT !.r.exchSave = "ok"])
              ELSE /\ spc' = "pw"
                   /\ flow' = [flow EXCEPT !.r.exchSave = "fail",
                                           !.r.order = Append(@, "pw")]
                   /\ UNCHANGED <<wrapper, firstErr, cfg, meshIdx>>
         [] pending.via = "pw" ->
              IF adopts(pending.out)
              THEN RefreshReturned(TRUE, [flow EXCEPT !.r.pwSave = "ok"])
              ELSE RefreshReturned(FALSE, [flow EXCEPT !.r.pwSave = "fail"])
    /\ UNCHANGED <<storeFile, unsupported, twoFactor, issued, lastStored,
                   hist>>
    /\ UNCHANGED <<clientVars, envVars, topoVars, lanLoad, codec>>

(* --------------------------- cloud wrappers --------------------------- *)

\* isAccessTokenExpiredError(err) && this.tokenData
refreshable(sig) == sig = "expired" /\ tokenData # NoCred

\* a wrapper that refreshes again when its second call fails as expired
afterSecondFailure_refreshAgain(sig) ==
    IF refreshable(sig) THEN "refresh" ELSE "throw"

\* what a wrapper does when its second call fails: the call sits in the
\* catch block, so the error leaves the wrapper
afterSecondFailure(sig) == "throw"

\* what a wrapper does when its call number n ended as sig
afterCall(n, sig) ==
    IF sig = "ok" THEN "return"
    ELSE IF n = 1 THEN (IF refreshable(sig) THEN "refresh" ELSE "throw")
    ELSE afterSecondFailure(sig)

\* the wrapper's record after its call number n ended as sig
called(w, n, sig) ==
    IF n = 1 THEN [w EXCEPT !.first = sig] ELSE [w EXCEPT !.second = sig]

\* the result of a wrapper whose call number n ended as sig, when that ends
\* the wrapper: a value, or the error of that call
resultOf(n, sig) ==
    IF sig = "ok" THEN "ok" ELSE IF n = 1 THEN "err1" ELSE "err2"

\* configClient.getCloudConfig() settled, inside getCloudConfigWithRefresh()
CloudConfigReturns(sig, c) ==
    /\ spc \in {"cfg", "cfg2"}
    /\ LET n == flow.w.calls
           fl == [flow EXCEPT !.w = called(@, n, sig)]
       IN  CASE afterCall(n, sig) = "return" ->
                  /\ spc' = "wret"
                  /\ cfg' = c
                  /\ flow' = [fl EXCEPT !.w.result = "ok"]
                  /\ UNCHANGED <<wrapper, firstErr, meshIdx>>
             [] afterCall(n, sig) = "refresh" -> BeginRefresh(fl)
             [] afterCall(n, sig) = "throw" ->
                  WrapperReturns([fl EXCEPT !.w.result = resultOf(n, sig)])
    /\ UNCHANGED <<storeFile, tokenData, session, unsupported, twoFactor,
                   pending, issued, lastStored, hist>>
    /\ UNCHANGED <<clientVars, envVars, topoVars, lanLoad, codec>>

\* whether getDevicePropertiesWithRefresh() adds the product id to
\* unsupportedPropertiesProductIds: only in the catch of its first call
cachesUnsupported(n, sig) == n = 1 /\ sig = "notexists"

\* configClient.getDeviceProperties() settled, inside
\* getDevicePropertiesWithRefresh()
PropertiesReturn(sig) ==
    /\ spc \in {"prop", "prop2"}
    /\ hist' = IF sig = "notexists"
               THEN [hist EXCEPT !.notExists = @ \cup {cfg[meshIdx]}]
               ELSE hist
    /\ unsupported' = IF cachesUnsupported(flow.w.calls, sig)
                      THEN unsupported \cup {cfg[meshIdx]}
                      ELSE unsupported
    /\ LET n == flow.w.calls
           fl == [flow EXCEPT !.w = called(@, n, sig)]
       IN  IF n = 1 /\ sig = "notexists"
           THEN WrapperReturns([fl EXCEPT !.w.result = "empty"])
           ELSE CASE afterCall(n, sig) = "return" ->
                       WrapperReturns([fl EXCEPT !.w.result = "ok"])
                  [] afterCall(n, sig) = "refresh" -> BeginRefresh(fl)
                  [] afterCall(n, sig) = "throw" ->
                       WrapperReturns([fl EXCEPT
                                         !.w.result = resultOf(n, sig)])
    /\ UNCHANGED <<storeFile, tokenData, session, twoFactor, pending, issued,
                   lastStored>>
    /\ UNCHANGED <<clientVars, envVars, topoVars, lanLoad, codec>>

\* The continuation of the wrapper's caller.  loadConfiguration() goes on
\* to the mesh loop after getCloudConfigWithRefresh() returned, and leaves
\* by the exception otherwise; in the loop every outcome of
\* getDevicePropertiesWithRefresh(), an error included, leads to the next
\* mesh.
WrapperContinues ==
    /\ spc = "wret"
    /\ IF wrapper = "cfg"
       THEN IF flow.w.result = "ok"
            THEN ProbeFrom(cfg, 1, unsupported, tokenData, flow)
            ELSE EndLoad(flow)
       ELSE ProbeFrom(cfg, meshIdx + 1, unsupported, tokenData, flow)
    /\ UNCHANGED <<storeFile, tokenData, session, unsupported, twoFactor,
                   pending, issued, lastStored, hist>>
    /\ UNCHANGED <<clientVars, envVars, topoVars, lanLoad, codec>>

(* --------------------------- specifications --------------------------- *)

Attempts == 1..Len(attempts)
Cmds == 1..Len(cmds)

Next ==
    /\ \/ \E lc \in LoginCodes : Connect(lc)
       \/ Disconnect
       \/ Enqueue("power", "d1", MaxCmds)
       \/ \E c \in Cmds : CmdRun(c)
       \/ \E c \in Cmds : CmdResume(c)
       \/ \E a \in Attempts : OpenSucceeds(a)
       \/ \E a \in Attempts : OpenFails(a)
       \/ \E a \in Attempts : SocketDrop(a)
       \/ \E a \in Attempts : CloseEvent(a)
    /\ UNCHANGED <<topoVars, sessVars, lanLoad, codec>>

Spec == Init /\ [][Next]_vars

NextHb ==
    /\ \/ \E lc \in LoginCodes : Connect(lc)
       \/ Disconnect
       \/ \E k \in CmdKinds : Enqueue(k, "d1", MaxCmdsHb)
       \/ \E c \in Cmds : CmdRun(c)
       \/ \E c \in Cmds : CmdResume(c)
       \/ \E a \in Attempts : OpenSucceeds(a)
       \/ \E a \in Attempts : OpenFails(a)
       \/ \E a \in Attempts : SocketDrop(a)
       \/ \E a \in Attempts : CloseEvent(a)
       \/ \E h \in intervals : HeartbeatTick(h)
    /\ UNCHANGED <<topoVars, sessVars, lanLoad, codec>>

SpecHb == Init /\ [][NextHb]_vars

NextRx ==
    /\ \/ \E lc \in {LoginA} : Connect(lc)
       \/ Disconnect
       \/ Enqueue("power", "d1", MaxCmdsRx)
       \/ \E c \in Cmds : CmdRun(c)
       \/ \E c \in Cmds : CmdResume(c)
       \/ \E a \in Attempts : OpenSucceeds(a)
       \/ \E a \in Attempts : OpenFails(a)
       \/ \E a \in Attempts : SocketDrop(a)
       \/ \E a \in Attempts : CloseEvent(a)
       \/ \E a \in Attempts, f \in ServerFrames : ServerSend(a, f.type, f.body)
       \/ \E a \in Attempts : \E n \in 1..Len(sockets[a].inbound) : Data(a, n)
    /\ UNCHANGED <<topoVars, sessVars, lanLoad, codec>>

SpecRx == Init /\ [][NextRx]_vars

NextTimer ==
    /\ \/ \E lc \in {<<>>, LoginA} : Connect(lc)
       \/ Disconnect
       \/ Enqueue("power", "d1", MaxCmdsTimer)
       \/ \E c \in Cmds : CmdRun(c)
       \/ \E c \in Cmds : CmdResume(c)
       \/ \E a \in Attempts : OpenSucceeds(a)
       \/ \E a \in Attempts : OpenFails(a)
       \/ \E a \in Attempts : SocketDrop(a)
       \/ \E a \in Attempts : CloseEvent(a)
       \/ ScheduleReconnect
       \/ \E t \in timeouts : TimerFire(t)
    /\ UNCHANGED <<topoVars, sessVars, lanLoad, codec>>

SpecTimer == Init /\ [][NextTimer]_vars

\* reconnect timers armed one after another, around attempts that fail or
\* succeed, closes and disconnects
NextBackoff ==
    /\ \/ \E lc \in {LoginA} : Connect(lc)
       \/ Disconnect
       \/ \E a \in Attempts : OpenSucceeds(a)
       \/ \E a \in Attempts : OpenFails(a)
       \/ \E a \in Attempts : CloseEvent(a)
       \/ ScheduleReconnectUpTo(MaxBackoffTimers)
       \/ \E t \in timeouts : TimerFire(t)
    /\ UNCHANGED <<topoVars, sessVars, lanLoad, codec>>

SpecBackoff == Init /\ [][NextBackoff]_vars

\* the bytes a 'data' event can bring: a header and a little more, or all
\* that is under way
TopoChunks(a) ==
    {n \in {HeaderLen + 2, Len(sockets[a].inbound)} :
        n \in 1..Len(sockets[a].inbound)}

NextTopo ==
    \/ /\ \/ \E lc \in {LoginA} : Connect(lc)
          \/ Enqueue("power", "d1", MaxCmdsTopo)
          \/ \E c \in Cmds : CmdRun(c)
          \/ \E c \in Cmds : CmdResume(c)
          \/ \E a \in Attempts : OpenSucceeds(a)
          \/ \E a \in Attempts, f \in TopoFrames :
                 ServerSend(a, f.type, f.body)
          \/ \E a \in Attempts : \E n \in TopoChunks(a) : Data(a, n)
          \/ ScheduleReconnect
       /\ UNCHANGED <<topoVars, sessVars, lanLoad, codec>>
    \/ \E t \in Topologies : ApplyLanTopology(t)
    \/ RegisterSwitchMapping(2, "c")

SpecTopo == Init /\ [][NextTopo]_vars

NextDecode ==
    \/ /\ \/ \E lc \in {LoginA} : Connect(lc)
          \/ Enqueue("power", "d1", MaxCmdsTopo)
          \/ \E c \in Cmds : CmdRun(c)
          \/ \E c \in Cmds : CmdResume(c)
          \/ \E a \in Attempts : OpenSucceeds(a)
          \/ \E a \in Attempts, f \in DecodeFrames :
                 ServerSend(a, f.type, f.body)
          \/ \E a \in Attempts :
                 Len(sockets[a].inbound) > 0 /\ Data(a, Len(sockets[a].inbound))
       /\ UNCHANGED <<topoVars, sessVars, lanLoad, codec>>
    \/ \E t \in Topologies : ApplyLanTopology(t)
    \/ RegisterSwitchMapping(2, "c")

SpecDecode == Init /\ [][NextDecode]_vars

NextSeq ==
    /\ \/ \E lc \in {LoginA} : Connect(lc)
       \/ \E dev \in {"d1", "d2", "d3", "dx"} :
              Enqueue("power", dev, MaxCmdsSeq)
       \/ \E c \in Cmds : CmdRun(c)
       \/ \E c \in Cmds : CmdResume(c)
       \/ \E a \in Attempts : OpenSucceeds(a)
       \/ \E a \in Attempts : OpenFails(a)
    /\ UNCHANGED <<topoVars, sessVars, lanLoad, codec>>

SpecSeq == InitSeq /\ [][NextSeq]_vars

\* the requests callers make: brightness below, at and above the ends of
\* 0..100, whole and fractional, not a number, and left out
Requests ==
    {Request(TRUE, Brightness("num", t), <<255, 0, 300>>) :
        t \in {-10, 0, 3, 5, 10, 500, 995, 1000, 2000}}
    \cup {Request(TRUE, Brightness("nan", 0), <<255, 0, 300>>),
          Request(FALSE, Brightness("none", 0), <<0, 0, 0>>)}

NextPacket ==
    /\ \/ \E lc \in {LoginA} : Connect(lc)
       \/ \E kind \in CmdKinds, req \in Requests :
              EnqueueRequest(kind, "d1", req, MaxCmdsPacket)
       \/ \E c \in Cmds : CmdRun(c)
       \/ \E c \in Cmds : CmdResume(c)
       \/ \E a \in Attempts : OpenSucceeds(a)
    /\ UNCHANGED <<topoVars, sessVars, lanLoad, codec>>

SpecPacket == Init /\ [][NextPacket]_vars

\* the values the builders are called with: mesh indexes and levels at and
\* around the ends of their ranges
MeshIds == {0, 1, 255, 256, 65535}
Levels == {-1, 0, 1, 100, 255, 256}
Tones == {0, 254}
Rgbs == {<<0, 1, -5>>, <<255, 300, 128>>, <<255, 255, 255>>, <<7, 0, 255>>}

\* the bytes a frame can carry
Bytes == 0..255

\* one call of a builder or of a parser
NextCodec ==
    /\ codec = NoCall
    /\ \/ \E meshId \in MeshIds, on \in BOOLEAN :
              BuildPowerPacket(1, meshId, on, 1)
       \/ \E meshId \in MeshIds, on \in BOOLEAN, level \in Levels,
                tone \in Tones, rgb \in Rgbs :
              BuildComboPacket(1, meshId, on, level, tone, rgb, SeqMax)
       \/ \E stateByte \in {0, 1, 2, 255}, levelByte \in Bytes :
              ParseLanSwitchUpdate(stateByte, levelByte)
       \/ \E onFlag \in {0, 1, 2}, levelByte \in Bytes :
              ParseSwitchStateFrame(onFlag, levelByte)

SpecCodec == Init /\ [][NextCodec]_vars

\* the acknowledgement frames a server sends
AckFrames == {[type |-> AckType, body |-> AckBody]}

NextAck ==
    /\ \/ \E lc \in {LoginA} : Connect(lc)
       \/ Enqueue("power", "d1", MaxCmdsAck)
       \/ \E c \in Cmds : CmdRun(c)
       \/ \E c \in Cmds : CmdResume(c)
       \/ \E a \in Attempts : OpenSucceeds(a)
       \/ \E a \in Attempts : OpenFails(a)
       \/ \E a \in Attempts : SocketDrop(a)
       \/ \E a \in Attempts : CloseEvent(a)
       \/ \E a \in Attempts, f \in AckFrames : ServerSend(a, f.type, f.body)
       \/ \E a \in Attempts : \E n \in TopoChunks(a) : Data(a, n)
    /\ UNCHANGED <<topoVars, sessVars, lanLoad, codec>>

SpecAck == Init /\ [][NextAck]_vars

NextRaw ==
    \/ /\ \/ \E lc \in {LoginA} : Connect(lc)
          \/ Enqueue("power", "d1", MaxCmdsRx)
          \/ \E c \in Cmds : CmdRun(c)
          \/ \E c \in Cmds : CmdResume(c)
          \/ \E a \in Attempts : OpenSucceeds(a)
          \/ \E a \in Attempts, f \in ServerFrames :
                 ServerSend(a, f.type, f.body)
          \/ \E a \in Attempts : \E n \in 1..Len(sockets[a].inbound) :
                 Data(a, n)
       /\ UNCHANGED <<topoVars, sessVars, lanLoad, codec>>
    \/ \E kind \in {"returns", "throws"} : OnRawFrame(kind)

SpecRaw == Init /\ [][NextRaw]_vars

\* frames read in chunks of every size, handed to a subscriber that returns
\* or throws
NextSub ==
    \/ /\ \/ \E lc \in {LoginA} : Connect(lc)
          \/ Enqueue("power", "d1", MaxCmdsRx)
          \/ \E c \in Cmds : CmdRun(c)
          \/ \E c \in Cmds : CmdResume(c)
          \/ \E a \in Attempts : OpenSucceeds(a)
          \/ \E a \in Attempts, f \in ServerFrames :
                 ServerSend(a, f.type, f.body)
          \/ \E a \in Attempts : \E n \in 1..Len(sockets[a].inbound) :
                 Data(a, n)
       /\ UNCHANGED <<topoVars, sessVars, lanLoad, codec>>
    \/ \E kind \in {"returns", "throws"} : OnDeviceUpdate(kind)

SpecSub == Init /\ [][NextSub]_vars

\* commands on a device whose packet is written and on one whose builder
\* throws, around attempts, drops, closes and disconnects
NextLive ==
    /\ \/ \E lc \in {LoginA} : Connect(lc)
       \/ Disconnect
       \/ \E dev \in {"d1", "d3"} : Enqueue("power", dev, MaxCmdsLive)
       \/ \E c \in Cmds : CmdRun(c)
       \/ \E c \in Cmds : CmdResume(c)
       \/ \E a \in Attempts : OpenSucceeds(a)
       \/ \E a \in Attempts : OpenFails(a)
       \/ \E a \in Attempts : SocketDrop(a)
       \/ \E a \in Attempts : CloseEvent(a)
    /\ UNCHANGED <<topoVars, sessVars, lanLoad, codec>>

\* a promise continuation that is ready runs (the microtask queue is drained
\* after every event), and every open settles: the net and tls modules
\* report 'connect' or 'error' for each socket they create
Fairness ==
    /\ WF_vars(/\ \E c \in Cmds : CmdRun(c) \/ CmdResume(c)
               /\ UNCHANGED <<topoVars, sessVars, lanLoad, codec>>)
    /\ WF_vars(/\ \E a \in Attempts : OpenSucceeds(a) \/ OpenFails(a)
               /\ UNCHANGED <<topoVars, sessVars, lanLoad, codec>>)

SpecLive == Init /\ [][NextLive]_vars /\ Fairness

NextLoad ==
    \/ \E c \in LanConfigs : LoadConfiguration(c)
    \/ \E ok \in BOOLEAN : MeshLoaded(ok)
    \/ StartTransport

SpecLoad == Init /\ [][NextLoad]_vars

NextReload ==
    \/ /\ \/ config # 0 /\ Enqueue("power", "d1", MaxCmdsLoad)
          \/ \E c \in Cmds : CmdRun(c)
          \/ \E c \in Cmds : CmdResume(c)
          \/ \E a \in Attempts : OpenSucceeds(a)
          \/ \E a \in Attempts, f \in TopoFrames :
                 ServerSend(a, f.type, f.body)
          \/ \E a \in Attempts :
                 Len(sockets[a].inbound) > 0 /\ Data(a, Len(sockets[a].inbound))
       /\ UNCHANGED <<topoVars, sessVars, lanLoad, codec>>
    \/ \E c \in LanConfigs : LoadConfiguration(c)
    \/ MeshLoaded(TRUE)
    \/ StartTransport

SpecReload == Init /\ [][NextReload]_vars





\* the session manager at process start: any token file an earlier run can
\* have left, with or without a 2FA code configured
InitSession ==
    /\ TcpInit
    /\ \E file \in StoredCreds, code \in BOOLEAN : SessionInit(file, code)

NextSession ==
    \/ LoadCync
    \/ TokenLoaded
    \/ \E ok \in BOOLEAN : CodeRequestReturns(ok)
    \/ \E out \in {"ok", "noauth", "fail"}, cred \in LoginCreds(issued + 1) :
           TwoFactorLoginReturns(out, cred)
    \/ \E sig \in CfgOutcomes, c \in CloudConfigs : CloudConfigReturns(sig, c)
    \/ \E sig \in PropOutcomes : PropertiesReturn(sig)
    \/ WrapperContinues
    \/ \E ok \in BOOLEAN, exp \in IssuedExpiries : ExchangeReturns(ok, exp)
    \/ \E ok \in BOOLEAN, cred \in LoginCreds(issued + 1) :
           PasswordLoginReturns(ok, cred)
    \/ \E out \in SaveOutcomes : SaveSettles(out)
    \/ SaveContinues

SpecSession == InitSession /\ [][NextSession]_vars

(* ============================== claims ================================ *)

IsPrefix(p, q) == Len(p) <= Len(q) /\ p = SubSeq(q, 1, Len(p))

Ladder == <<"tls_strict", "tls_relaxed", "tcp">>

\* the command packets written to socket s, in write order
CmdWrites(s) == SelectSeq(sockets[s].written, LAMBDA w : w.k = "cmd")

\* every command packet written to any socket
AllCmdWrites ==
    UNION {{CmdWrites(s)[i] : i \in DOMAIN CmdWrites(s)} : s \in Attempts}

(* C1: command bodies run one at a time, in issue order: a later-issued
   command's body has not started while an earlier-issued one has not
   finished, also while the earlier one is suspended awaiting a connect
   attempt. *)
C1_BodiesSerialized ==
    \A c, d \in Cmds :
        (c < d /\ cmds[d].pc # "queued") => cmds[c].pc = "done"

\* an earlier command is suspended in a connect attempt and a later one waits
C1_Witness ==
    \E c, d \in Cmds :
        c < d /\ cmds[c].pc = "await" /\ cmds[d].pc = "queued"

(* C2: command packets reach the socket in issue order: on every socket the
   packets of earlier-issued commands come before those of later-issued
   ones, each command's packet is written at most once, and across sockets
   the sequence numbers (taken at write time) follow the issue order. *)
C2_PacketsInIssueOrder ==
    /\ \A s \in Attempts : \A i, j \in DOMAIN CmdWrites(s) :
           i < j => CmdWrites(s)[i].id < CmdWrites(s)[j].id
    /\ \A v, w \in AllCmdWrites : v.id < w.id => v.seq < w.seq
    /\ \A v, w \in AllCmdWrites : v.id = w.id => v = w

\* three commands issued back to back have put three packets on one socket
C2_Witness ==
    \E s \in Attempts : Len(CmdWrites(s)) >= 3

(* C3: at most one establishSocket attempt is in progress at any time, and
   it is the one connectInFlight names; an ensureConnected call made with a
   login code stored while an attempt is in flight starts no attempt,
   awaits that attempt, and returns that attempt's outcome. *)
C3_SingleAttempt ==
    /\ Cardinality({a \in Attempts : attempts[a].pc # "done"}) <= 1
    /\ \A a \in Attempts : attempts[a].pc # "done" => connectInFlight = a
    /\ \A c \in Cmds :
         (cmds[c].called /\ cmds[c].loginAtCall
            /\ cmds[c].inFlightAtCall # 0) =>
               /\ cmds[c].started = 0
               /\ cmds[c].awaiting = cmds[c].inFlightAtCall
               /\ cmds[c].pc = "done" =>
                    (cmds[c].connected = "true") =
                        (attempts[cmds[c].awaiting].outcome = "ok")

\* a command joined an attempt the reconnect timer had started, and got its
\* outcome
C3_Witness ==
    \E c \in Cmds :
        /\ cmds[c].pc = "done"
        /\ cmds[c].inFlightAtCall # 0
        /\ cmds[c].started = 0
        /\ cmds[c].connected = "true"

\* the 'close' handler of socket a runs in this step
CloseHandlerRuns(a) ==
    /\ sockets[a].listeners
    /\ CloseEvent(a)

(* C4: when an established socket closes and disconnect() has not been
   requested (a login code being stored), the close handler leaves a
   reconnect timer armed. *)
C4_CloseArmsReconnect ==
    [][\A a \in Attempts :
          (CloseHandlerRuns(a) /\ ~shuttingDown /\ HasLogin)
              => reconnectTimer' # 0]_vars

(* C5: from disconnect() until the next connect() no reconnect timer is
   live: a pending one was cancelled (so it cannot fire) and
   scheduleReconnect arms none. *)
C5_NoTimerWhileShutDown ==
    shuttingDown => (timeouts = {} /\ reconnectTimer = 0)

\* a timer was armed, never fired, no socket was ever opened, and
\* disconnect() has been called: disconnect() cancelled it
C5_Witness ==
    /\ shuttingDown
    /\ timerNo >= 1
    /\ timersFired = 0
    /\ attempts = <<>>

(* C6 as stated: once a mode is cached it never changes, and a later attempt
   tries only that mode. *)
C6_CachedModeNeverChanges ==
    /\ \A a \in Attempts :
         attempts[a].cached # "none" =>
             /\ attempts[a].tried = <<attempts[a].cached>>
             /\ transportMode = attempts[a].cached

(* C6 amended: once tls_relaxed or tcp is cached, every later attempt tries
   only that mode and the cached mode never changes; an attempt started with
   tls_strict cached tries strict first and walks down the ladder, so the
   cached mode may move to a less strict one. *)
C6_DowngradedModeSticky ==
    \A a \in Attempts :
        /\ attempts[a].cached \in {"tls_relaxed", "tcp"} =>
             /\ attempts[a].tried = <<attempts[a].cached>>
             /\ transportMode = attempts[a].cached
        /\ attempts[a].cached = "tls_strict" =>
             /\ IsPrefix(attempts[a].tried, Ladder)
             /\ transportMode # "none"

\* an attempt that started with tls_relaxed remembered has finished
C6_Witness ==
    \E a \in Attempts :
        attempts[a].cached = "tls_relaxed" /\ attempts[a].pc = "done"

(* C7: an attempt started with no cached mode tries strict TLS, relaxed TLS,
   plain TCP in that order, each only after the one before failed; it tries
   nothing after a success; it fails only when all three failed, and then no
   socket is left. *)
C7_LadderOrder ==
    \A a \in Attempts :
        attempts[a].cached = "none" =>
            /\ IsPrefix(attempts[a].tried, Ladder)
            /\ attempts[a].pc # "done" =>
                   attempts[a].pc = attempts[a].tried[Len(attempts[a].tried)]
            /\ attempts[a].outcome = "fail" => attempts[a].tried = Ladder
            /\ (attempts[a].outcome = "fail" /\ a = Len(attempts)) =>
                   (socket = 0 /\ sockets[a].st = "none")
            /\ attempts[a].outcome = "ok" =>
                   /\ attempts[a].pc = "done"
                   /\ sockets[a].st # "none"
                   /\ transportMode \in
                        {Ladder[i] : i \in Len(attempts[a].tried)..3}

\* strict and relaxed TLS failed and plain TCP succeeded
C7_Witness ==
    \E a \in Attempts :
        /\ attempts[a].cached = "none"
        /\ attempts[a].outcome = "ok"
        /\ attempts[a].tried = Ladder

(* C8: on every socket the first thing written is the login code; no
   heartbeat frame and no command packet comes before it. *)
C8_LoginWrittenFirst ==
    \A s \in Attempts :
        sockets[s].written # <<>> => sockets[s].written[1].k = "login"

\* the bytes of a sequence of frames
RECURSIVE encodeAll(_)
encodeAll(fs) ==
    IF fs = <<>> THEN <<>> ELSE encodeFrame(Head(fs)) \o encodeAll(Tail(fs))

\* the bytes the server has written that no 'data' event has delivered yet
RECURSIVE undelivered(_)
undelivered(n) ==
    IF n = 0 THEN <<>> ELSE undelivered(n - 1) \o sockets[n].inbound

\* the extracted frames without their routing
Strip(d) == [i \in DOMAIN d |-> [type |-> d[i].type, body |-> d[i].body]]

\* the frames extracted are the server's frames, in order, each once, each
\* only when complete, and the bytes left over are buffered
FramesExact ==
    LET n == Len(dispatched) IN
    /\ n <= Len(rxFrames)
    /\ Strip(dispatched) = SubSeq(rxFrames, 1, n)
    /\ encodeAll(SubSeq(rxFrames, 1, n)) \o readBuffer
           \o undelivered(Len(sockets)) = encodeAll(rxFrames)
    /\ IF n < Len(rxFrames)
       THEN Len(readBuffer) < Len(encodeFrame(rxFrames[n + 1]))
       ELSE readBuffer = <<>>

(* C9 as stated: for a stream of complete frames, however it is split into
   reads, every frame of the stream is dispatched to the frame handler. *)
C9_EveryFrameDispatched ==
    ~rxTorn =>
        /\ FramesExact
        /\ \A i \in DOMAIN dispatched : dispatched[i].route = "frame"

(* C9 amended: for a stream of complete frames, however it is split into
   reads, the frames extracted are exactly those frames, in order, each
   once, each only after its last payload byte arrived, with the unconsumed
   bytes left in the buffer; an extracted frame goes to the frame handler
   unless it is an acknowledgement (type 0x7b with at least 6 payload
   bytes), which is only logged. *)
C9_FramesExtractedExactly ==
    ~rxTorn =>
        /\ FramesExact
        /\ \A i \in DOMAIN dispatched :
             (dispatched[i].route = "ack") =
                 (dispatched[i].type = AckType
                    /\ Len(dispatched[i].body) >= AckMinLen)

\* the first of two frames has been extracted and a read ended inside the
\* second
C9_Witness ==
    /\ ~rxTorn
    /\ Len(rxFrames) = 2
    /\ Len(dispatched) = 1
    /\ readBuffer # <<>>

\* no packet of command c is on any socket
NeverWritten(c) == \A w \in AllCmdWrites : w.id # c

\* what follows a failed attempt: the command is dropped, its promise
\* resolved, nothing written for it, and its successor can run
DroppedAfterFailure(c) ==
    (cmds[c].pc = "done" /\ cmds[c].awaiting # 0
       /\ attempts[cmds[c].awaiting].outcome = "fail") =>
          /\ cmds[c].outcome = "notready"
          /\ cmds[c].settled = "resolved"
          /\ NeverWritten(c)
          /\ \A d \in Cmds :
               (cmds[d].prev = c /\ cmds[d].pc = "queued") => CmdRunnable(d)

(* C10 as stated: every command whose body finds no open socket triggers one
   connect attempt or joins the one in flight. *)
C10_AlwaysAttempts ==
    \A c \in Cmds :
        (cmds[c].pc = "done" /\ ~cmds[c].sockAtCall) => cmds[c].awaiting # 0

(* C10 amended: a command whose body finds no open socket, with a
   configuration and a non-empty login code stored, triggers exactly one
   connect attempt or joins the one in flight; if that attempt fails the
   command's promise resolves, no packet of that command is ever written,
   and the next queued command proceeds. *)
C10_DroppedOnConnectFailure ==
    \A c \in Cmds :
        /\ cmds[c].started <= 1
        /\ (cmds[c].called /\ ~cmds[c].sockAtCall /\ cmds[c].loginAtCall) =>
              /\ cmds[c].awaiting # 0
              /\ (cmds[c].started = 1) = (cmds[c].inFlightAtCall = 0)
        /\ DroppedAfterFailure(c)

\* a command was dropped after its attempt failed and the next one has run
C10_Witness ==
    \E c, d \in Cmds :
        /\ cmds[c].pc = "done"
        /\ cmds[c].awaiting # 0
        /\ attempts[cmds[c].awaiting].outcome = "fail"
        /\ cmds[d].prev = c
        /\ cmds[d].pc = "done"

\* the record of the wrapper invocation running or last finished
W == flow.w

\* the record of the refreshAccessToken invocation running or last finished
R == flow.r

(* C11: a wrapper invocation calls the underlying cloud call at most twice;
   the second call is made only after the first failed as 'Access-Token
   Expired' and the refresh returned a credential; when the second call
   fails its error is the wrapper's result and nothing more is tried; when
   the refresh fails the first error is the wrapper's result. *)
C11_RetryAtMostOnce ==
    /\ W.calls <= 2
    /\ W.calls = 2 => (W.first = "expired" /\ W.refreshed = "ok")
    /\ W.second \notin {"none", "ok"} =>
           /\ W.result = "err2"
           /\ W.calls = 2
           /\ spc \in {"wret", "idle"}
    /\ W.refreshed = "fail" => (W.result = "err1" /\ W.calls = 1)
    /\ W.result = "err1" => W.second = "none"

\* a second call was made and failed, and its error left the wrapper
C11_Witness ==
    /\ W.calls = 2
    /\ W.second = "expired"
    /\ W.result = "err2"

(* C12 as stated: with a refresh token stored the exchange is the first
   call; the password login is made only when no refresh token is stored or
   the exchange failed; no 2FA code is requested and no 2FA login made
   during a refresh. *)
C12_PasswordOnlyAfterExchangeFailed ==
    R.n > 0 =>
        /\ R.order[1] = (IF R.hadRefresh THEN "exch" ELSE "pw")
        /\ (\E i \in DOMAIN R.order : R.order[i] = "pw") =>
               (~R.hadRefresh \/ R.exch = "fail")
        /\ flow.codeRequests = R.codeRequests
        /\ flow.twoFaLogins = R.twoFaLogins

(* C12 amended: with a refresh token stored the exchange is the first call;
   the password login is made only when no refresh token is stored, the
   exchange failed, or saving the exchanged credential failed; it is made
   at most once, after the exchange; no 2FA code is requested and no 2FA
   login made during a refresh. *)
C12_ExchangeFirst ==
    R.n > 0 =>
        /\ R.order[1] = (IF R.hadRefresh THEN "exch" ELSE "pw")
        /\ R.order \in {<<"exch">>, <<"exch", "pw">>, <<"pw">>}
        /\ (\E i \in DOMAIN R.order : R.order[i] = "pw") =>
               (~R.hadRefresh \/ R.exch = "fail" \/ R.exchSave = "fail")
        /\ flow.codeRequests = R.codeRequests
        /\ flow.twoFaLogins = R.twoFaLogins

\* the exchange was tried first and failed, then the password login was made
C12_Witness ==
    /\ R.hadRefresh
    /\ R.order = <<"exch", "pw">>
    /\ R.exch = "fail"
    /\ R.pw = "ok"

(* C13: ensureLoggedIn returns a stored credential without a refresh when
   its expiresAt is absent or more than 60 s ahead, and makes a refresh
   attempt before returning it when expiresAt is at most 60 s ahead. *)
C13_RefreshWithinSkew ==
    (flow.el = "true" /\ flow.stored # NoCred) =>
        IF flow.stored.exp.set /\ flow.stored.exp.at <= 60
        THEN flow.elRefreshes >= 1
        ELSE flow.elRefreshes = 0

\* the process started with a token file whose access token has expired and
\* which holds a refresh token, and this is its first load
ExpiredWithRefreshToken ==
    /\ hist.boot # NoCred
    /\ hist.boot.refresh
    /\ hist.boot.exp.set
    /\ hist.boot.exp.at <= 0
    /\ hist.loads = 1

(* C14: with a stored credential whose access token has expired and which
   holds a refresh token, ensureLoggedIn reports success and neither
   requests a 2FA code nor makes a 2FA login. *)
C14_ExpiredTokenRefreshed ==
    ExpiredWithRefreshToken =>
        /\ flow.codeRequests = 0
        /\ flow.twoFaLogins = 0
        /\ flow.el \in {"none", "true"}

(* C15: when the refresh-token exchange and the password login have both
   failed, the credential is gone from memory and from the token store. *)
C15_InvalidatedWhenRefreshFails ==
    (R.exch = "fail" /\ R.pw = "fail" /\ R.result = "null") =>
        (tokenData = NoCred /\ storeFile = NoCred)

(* C16: a credential is adopted in memory only after it was saved: the file
   holds the credential before this.tokenData takes it; when set,
   this.tokenData is the credential last saved to or loaded from the store
   (once the code that follows a finished save has run); a step in which a
   save has failed leaves this.tokenData as it was. *)
C16_AdoptedAfterSaved ==
    [][/\ (tokenData' # NoCred /\ spc' # "saved") => tokenData' = lastStored'
       /\ tokenData' # tokenData => storeFile = tokenData'
       /\ (spc = "saved" /\ pending.out # "ok") => tokenData' = tokenData
      ]_vars

\* the save after the exchange failed, the password login's credential was
\* saved and adopted
C16_Witness ==
    /\ R.exchSave = "fail"
    /\ R.pwSave = "ok"
    /\ tokenData # NoCred
    /\ tokenData = lastStored

\* the load found no credential and no 2FA code is configured, and
\* ensureLoggedIn has settled
CodeWasNeeded ==
    /\ ~twoFactor
    /\ flow.stored = NoCred
    /\ flow.el # "none"

\* loadConfiguration and TcpClient.connect are reached only after
\* ensureLoggedIn returned true
OnlyAfterLogin ==
    /\ flow.cfgLoads > 0 => flow.elAtLoad = "true"
    /\ flow.connects > 0 => flow.elAtConnect = "true"

(* C17 as stated: with no stored credential and no 2FA code configured,
   ensureLoggedIn sends exactly one code request and returns false, and the
   platform loads no configuration and starts no transport. *)
C17_CodeRequestedReturnsFalse ==
    /\ CodeWasNeeded =>
           /\ flow.codeRequests = 1
           /\ flow.el = "false"
           /\ flow.cfgLoads = 0
           /\ flow.connects = 0
    /\ OnlyAfterLogin

(* C17 amended: with no stored credential and no 2FA code configured,
   ensureLoggedIn sends exactly one code request and makes no 2FA login; it
   returns false, or rejects when the request itself failed; either way the
   platform loads no configuration and starts no transport;
   loadConfiguration and TcpClient.connect are reached only after
   ensureLoggedIn returned true. *)
C17_CodeRequestedNoLoad ==
    /\ CodeWasNeeded =>
           /\ flow.codeRequests = 1
           /\ flow.twoFaLogins = 0
           /\ flow.el \in {"false", "threw"}
           /\ flow.cfgLoads = 0
           /\ flow.connects = 0
    /\ (spc = "req2fa") => (flow.codeRequests = 1 /\ flow.el = "none")
    /\ OnlyAfterLogin

\* a code was requested, ensureLoggedIn returned false and the load ended
C17_Witness ==
    /\ CodeWasNeeded
    /\ flow.el = "false"
    /\ spc = "idle"

(* C18: once a getDeviceProperties call has failed as 'device property not
   exists' for a product id, no later getDeviceProperties call is made for
   a mesh with that product id. *)
C18_NoCallAfterNotExists ==
    spc \in {"prop", "prop2"} => cfg[meshIdx] \notin hist.notExists

\* command c's body starts in this step, no open socket at hand
StartsWithoutSocket(c) ==
    cmds[c].pc = "queued" /\ cmds'[c].pc # "queued" /\ ~SocketOk

(* C19: connect() with an empty login code returns without error, and while
   the stored login code is empty no step starts a connect attempt or arms
   a reconnect timer; a command whose body then finds no open socket is
   dropped (for want of a configuration before the first connect(), of a
   socket after it): it awaits no attempt, its promise resolves and no
   packet of it is written. *)
C19_NoAttemptWithoutLoginCode ==
    [][loginCode = <<>> =>
          /\ Len(attempts') = Len(attempts)
          /\ timerNo' = timerNo
          /\ \A c \in Cmds :
                StartsWithoutSocket(c) =>
                    /\ cmds'[c].pc = "done"
                    /\ cmds'[c].awaiting = 0
                    /\ cmds'[c].outcome \in {"noconfig", "notready"}
                    /\ cmds'[c].settled = "resolved"
                    /\ \A a \in 1..Len(sockets') :
                          \A i \in 1..Len(sockets'[a].written) :
                              sockets'[a].written[i].id # c]_vars

\* connect() was called with an empty login code and a command was dropped
\* with no attempt ever started
C19_Witness ==
    /\ loginCode = <<>>
    /\ config = 1
    /\ attempts = <<>>
    /\ timerNo = 0
    /\ \E c \in Cmds :
          /\ cmds[c].pc = "done"
          /\ cmds[c].called
          /\ ~cmds[c].sockAtCall
          /\ cmds[c].outcome = "notready"

\* the topology applyLanTopology was last given; none: the empty one
LastTopology == IF applied = <<>> THEN EmptyTopology ELSE applied[Len(applied)]

\* the controller-to-home map a topology stands for
HomeOfIn(t) ==
    [c \in ControllerIds |->
        IF \E h \in HomeIds :
               [key |-> NumKey(c), homeId |-> h] \in t.switchIdToHomeId
        THEN CHOOSE h \in HomeIds :
                 [key |-> NumKey(c), homeId |-> h] \in t.switchIdToHomeId
        ELSE ""]

\* slot arrays and map are those of topology t, both
WholeSnapshot(devicesOf, homeOf, t) ==
    devicesOf = t.homeDevices /\ homeOf = HomeOfIn(t)

\* what extracted frame d gives when decoded against topology t alone
DecodedAgainst(d, t) ==
    IF d.route = "ack" THEN NoPayload
    ELSE handleIncomingFrame(d.body, d.type, t.homeDevices, HomeOfIn(t),
                             controllerToDevice)

(* C20: applyLanTopology replaces the slot arrays and the controller-to-home
   map in one step: after every step the two are those of the topology last
   applied; the step that applies a topology leaves the socket, the read
   buffer, the heartbeat timer, the reconnect timer and attempt count, the
   command chain and its commands, the sequence counter and the cached
   transport mode unchanged; and every frame extracted in a step is decoded
   against the one topology that was in force when the step began. *)
C20_TopologyReplacedInOneStep ==
    [][/\ WholeSnapshot(homeDevices', switchIdToHomeId', LastTopology')
       /\ (applied' # applied) =>
              /\ homeDevices' = applied'[Len(applied')].homeDevices
              /\ UNCHANGED <<socket, sockets, readBuffer, heartbeatTimer,
                             intervals, reconnectTimer, reconnectAttempt,
                             timeouts, commandChain, cmds, seq,
                             transportMode, connectInFlight>>
       /\ \A i \in DOMAIN payloads' \ DOMAIN payloads :
              payloads'[i] = DecodedAgainst(dispatched'[i], LastTopology)
      ]_vars

\* the same frame arrived before and after a topology was replaced on an
\* open socket, and was decoded against the old one, then the new one
C20_Witness ==
    /\ Len(applied) = 2
    /\ applied[1] # applied[2]
    /\ SocketOk
    /\ heartbeatTimer # 0
    /\ Len(payloads) = 2
    /\ dispatched[1] = dispatched[2]
    /\ payloads[1] = DecodedAgainst(dispatched[1], applied[1])
    /\ payloads[2] = DecodedAgainst(dispatched[2], applied[2])
    /\ payloads[1].kind = "lan"
    /\ payloads[2].kind = "lan"
    /\ payloads[1] # payloads[2]

\* no socket, no heartbeat timer, no reconnect timer, attempt counter 0
Idle ==
    /\ socket = 0
    /\ heartbeatTimer = 0
    /\ intervals = {}
    /\ reconnectTimer = 0
    /\ timeouts = {}
    /\ reconnectAttempt = 0

(* C21: disconnect() can always be called; after each call the transport is
   Idle: no socket, no heartbeat timer (handle or live interval), no
   reconnect timer (handle or live timeout), reconnect attempt counter 0;
   and a call made in the state a disconnect() leaves changes nothing. *)
C21_DisconnectIdempotent ==
    [][Disconnect => /\ Idle'
                     /\ (shuttingDown /\ Idle) => UNCHANGED vars]_vars

\* disconnect() has closed a socket and cleared an armed reconnect timer
C21_Witness ==
    /\ shuttingDown
    /\ Idle
    /\ timerNo > 0
    /\ timersFired = 0
    /\ \E a \in Attempts : sockets[a].st = "closed" /\ ~sockets[a].listeners
    /\ connectInFlight = 0

\* the acknowledgements the client has read so far
AcksRead == {i \in DOMAIN dispatched : dispatched[i].route = "ack"}

(* C22: a command's promise is resolved in the state in which its packet is
   on the socket, whatever acknowledgements have or have not been read; and
   the command queued behind a finished command can run, whatever
   acknowledgements have or have not been read. *)
C22_ResolvedOnWrite ==
    \A c \in Cmds :
        /\ ~NeverWritten(c) =>
               cmds[c].pc = "done" /\ cmds[c].settled = "resolved"
        /\ \A d \in Cmds :
               (cmds[d].prev = c /\ ~NeverWritten(c)
                  /\ cmds[d].pc = "queued") => CmdRunnable(d)

\* two commands were written and resolved, one acknowledgement sent and read
C22_Witness ==
    /\ Len(cmds) = 2
    /\ \A c \in Cmds : ~NeverWritten(c) /\ cmds[c].settled = "resolved"
    /\ Len(rxFrames) = 1
    /\ AcksRead = {1}

\* what the caller of a command method observes: how the promise of
\* Promise<void> settled
CallerSees(c) == cmds[c].settled

\* the command was issued with no configuration given to the transport
BeforeConfiguration(c) == cmds[c].pc = "done" /\ cmds[c].outcome = "noconfig"

\* the command was dropped because its connect attempt failed
DroppedByTransport(c) ==
    /\ cmds[c].pc = "done"
    /\ cmds[c].awaiting # 0
    /\ cmds[c].outcome = "notready"

(* C23: a command issued before any configuration or login code was given
   to the transport is reported to its caller as a failure, and what the
   caller observes differs from what it observes for a command dropped
   because of a transport failure. *)
C23_ContractViolationReported ==
    \A c \in Cmds :
        BeforeConfiguration(c) =>
            /\ CallerSees(c) = "rejected"
            /\ \A d \in Cmds :
                   DroppedByTransport(d) => CallerSees(d) # CallerSees(c)

\* a destroyed socket whose 'close' listener has yet to run
ClosePending ==
    \E a \in Attempts : sockets[a].st = "closing" /\ sockets[a].listeners

\* the heartbeat frames written to socket a
HbWrites(a) == SelectSeq(sockets[a].written, LAMBDA w : w.k = "hb")

(* C24: at most one heartbeat interval is live; a step that writes a
   heartbeat frame writes it to the socket that is open; and when the
   transport is left without an open socket (no attempt in flight, no
   'close' event still to be handled) no heartbeat interval is live. *)
C24_HeartbeatOnlyWhileConnected ==
    [][/\ Cardinality(intervals') <= 1
       /\ \A a \in Attempts :
              Len(HbWrites(a)') > Len(HbWrites(a)) =>
                  socket = a /\ sockets[a].st = "open"
       /\ (~SocketOk' /\ ~ClosePending' /\ connectInFlight' = 0) =>
              intervals' = {}
      ]_vars

(* C25: when a frame is handed to the frame handler, every registered
   raw-frame listener is called with it, the ones after a listener that
   throws included, and the update subscriber is handed its payload; the
   frame is taken off the read buffer and the frames after it are extracted
   as they complete. *)
C25_ThrowingListenerIsolated ==
    [][/\ \A i \in DOMAIN dispatched' \ DOMAIN dispatched :
              dispatched'[i].route = "frame" =>
                  /\ rawSeen'[i] = [j \in DOMAIN rawFrameListeners |-> j]
                  /\ payloads'[i] # NoPayload
       /\ FramesExact'
      ]_vars

\* two frames went through the handler with a throwing listener registered
\* first and another one after it; both listeners were called for both
C25_Witness ==
    /\ Len(rawFrameListeners) = 2
    /\ rawFrameListeners[1] = "throws"
    /\ Len(dispatched) = 2
    /\ \A i \in 1..2 : dispatched[i].route = "frame" /\ rawSeen[i] = <<1, 2>>
    /\ readBuffer = <<>>

\* loadConfiguration has reset the caches and startTransport has not yet
\* handed the new topology to the transport
LoadInProgress == lanLoad.loads > 0 /\ lanLoad.pos # 0

\* what extracted frame d gives when decoded against decoding state b
DecodedBefore(d, b) ==
    IF d.route = "ack" THEN NoPayload
    ELSE handleIncomingFrame(d.body, d.type, b.homeDevices,
                             b.switchIdToHomeId, b.controllerToDevice)

(* C26: while a configuration load is in progress, every frame that
   arrives is decoded against the slot arrays, the controller-to-home map
   and the controller-to-device map the transport had when the load began. *)
C26_DecodesAsBeforeReload ==
    [][LoadInProgress =>
           \A i \in DOMAIN payloads' \ DOMAIN payloads :
               payloads'[i] = DecodedBefore(dispatched'[i], lanLoad.before)
      ]_vars

\* loadConfiguration has gone through every mesh of a configuration
LoadDone == lanLoad.loads > 0 /\ lanLoad.pos \notin 1..Len(lanLoad.cfg)

\* the meshes of the loaded configuration whose devices were read
MeshesWithDevices == {lanLoad.cfg[k] : k \in lanLoad.loaded}

\* index(H, D) with m = D mod H
index(H, D) == LET m == D % H IN (m % 1000) + (m \div 1000) * 256

\* the records of a mesh whose numeric device id gives index i
RecordsAt(mesh, i) ==
    {j \in DOMAIN mesh.bulbsArray :
        /\ isNumber(mesh.bulbsArray[j].deviceID)
        /\ index(mesh.id.n, mesh.bulbsArray[j].deviceID.n) = i}

\* the records of a mesh that have a numeric device id
NumericRecords(mesh) ==
    {j \in DOMAIN mesh.bulbsArray : isNumber(mesh.bulbsArray[j].deviceID)}

(* C28: after loadConfiguration, for each mesh with a numeric id H other
   than 0 whose devices were read: every record with a numeric id D has
   its slot index(H, D) in the mesh's slot array; slot i holds the id of the
   last record whose numeric id gives index i, and the empty string when no
   record does, so that records without a numeric id hold no slot. *)
C28_SlotArrays ==
    LoadDone =>
        \A mesh \in MeshesWithDevices :
            (isNumber(mesh.id) /\ mesh.id.n # 0) =>
                LET arr == lanLoad.homeDevices[mesh.id.s]
                IN  /\ \A j \in NumericRecords(mesh) :
                           index(mesh.id.n, mesh.bulbsArray[j].deviceID.n)
                               < Len(arr)
                    /\ \A i \in 0..(Len(arr) - 1) :
                           arr[i + 1] =
                               IF RecordsAt(mesh, i) = {} THEN ""
                               ELSE mesh.bulbsArray[
                                        CHOOSE j \in RecordsAt(mesh, i) :
                                            \A k \in RecordsAt(mesh, i) :
                                                k <= j].deviceID.s

\* a load in which two records met in slot 1 of home 7, slot 2 stayed
\* empty, records without a numeric id were passed over, and a record of
\* home 1500 with D mod H = 1001 went to slot 257
C28_Witness ==
    /\ LoadDone
    /\ lanLoad.cfg = ConfigA
    /\ lanLoad.loaded = {1, 2, 3}
    /\ lanLoad.homeDevices["7"] = <<"", "15", "", "10">>
    /\ Len(lanLoad.homeDevices["1500"]) = 258
    /\ lanLoad.homeDevices["1500"][258] = "2501"
    /\ lanLoad.homeDevices["1500"][2] = "1501"
    /\ lanLoad.homeDevices["0"] = <<>>

\* the loaded meshes, by position, with a record whose switchID is c
MeshesWithController(c) ==
    {k \in lanLoad.loaded :
        \E j \in DOMAIN lanLoad.cfg[k].bulbsArray :
            LET sid == lanLoad.cfg[k].bulbsArray[j].switchID
            IN  sid.has /\ sid.finite /\ sid.num = c}

\* the entries of a list
Entries(list) == {list[j] : j \in DOMAIN list}

(* C29: after loadConfiguration the controller-to-home map sends each
   controller id above 0 that a device of a loaded mesh carries to the first
   such mesh in load order, and holds nothing for any other id; the
   controller list of each home holds exactly the ids above 0 its devices
   carry, each once. *)
C29_FirstHomeKeepsController ==
    LoadDone =>
        /\ \A c \in SwitchIds :
               lanLoad.switchIdToHomeId[c] =
                   IF c > 0 /\ MeshesWithController(c) # {}
                   THEN lanLoad.cfg[CHOOSE k \in MeshesWithController(c) :
                                       \A l \in MeshesWithController(c) :
                                           k <= l].id.s
                   ELSE ""
        /\ \A k \in lanLoad.loaded :
               LET list == lanLoad.homeControllers[lanLoad.cfg[k].id.s]
               IN  /\ Entries(list) =
                          {c \in SwitchIds : c > 0 /\ k \in MeshesWithController(c)}
                   /\ Cardinality(Entries(list)) = Len(list)

\* controllers 1 and 2 stayed with home 7 although homes 1500 and 0 carry them
\* too, and the ids 0 and -1 and the id that is not finite are in no map
C29_Witness ==
    /\ LoadDone
    /\ lanLoad.cfg = ConfigA
    /\ lanLoad.loaded = {1, 2, 3}
    /\ lanLoad.switchIdToHomeId = [c \in SwitchIds |-> IF c > 0 THEN "7" ELSE ""]
    /\ lanLoad.homeControllers["7"] = <<1, 2>>
    /\ lanLoad.homeControllers["1500"] = <<2>>
    /\ lanLoad.homeControllers["0"] = <<1>>

\* the topology decode of extracted frame d
LanDecode(d) == parseLanSwitchUpdate(d.body, homeDevices, switchIdToHomeId)

\* the legacy decode of extracted frame d
LegacyDecode(d) == parseSwitchStateFrame(d.body, controllerToDevice)

\* extracted frame d is a device-state frame
DeviceState(d) == d.route = "frame" /\ d.type \in LanUpdateTypes

(* C27 as stated: for every device-state frame, of type 0x73 or 0x83, the
   payload is the topology decode when that matches, and otherwise the
   legacy decode whenever the legacy decode finds the marker. *)
C27_LegacyWheneverNoMatch ==
    [][\A i \in DOMAIN payloads' \ DOMAIN payloads :
           LET d == dispatched'[i]
           IN  DeviceState(d) =>
                   IF LanDecode(d) # NoParse THEN payloads'[i] = LanDecode(d)
                   ELSE LegacyDecode(d) # NoParse =>
                            payloads'[i] = LegacyDecode(d)
      ]_vars

(* C27, amended: for every device-state frame the payload is the topology
   decode when that matches; when it does not, a frame of type 0x83 gets
   the legacy decode, its deviceId read from the controller-to-device map,
   if the legacy decode finds the marker, and a frame of type 0x73, like a
   frame neither decode matches, is passed on as it came. *)
C27_LegacyFallbackFor0x83 ==
    [][\A i \in DOMAIN payloads' \ DOMAIN payloads :
           LET d == dispatched'[i]
           IN  DeviceState(d) =>
                   payloads'[i] =
                       IF LanDecode(d) # NoParse THEN LanDecode(d)
                       ELSE IF d.type = LegacyType /\ LegacyDecode(d) # NoParse
                       THEN LegacyDecode(d)
                       ELSE RawPayload
      ]_vars

\* the same body arrived as a 0x83 frame and as a 0x73 frame, matched by no
\* topology: the first gave the legacy payload with the mapped device, the
\* second was passed on undecoded
C27_Witness ==
    /\ Len(payloads) = 2
    /\ dispatched[1].body = dispatched[2].body
    /\ dispatched[1].type = LegacyType
    /\ dispatched[2].type = 115
    /\ payloads[1].kind = "legacy"
    /\ payloads[1].deviceId = "c"
    /\ payloads[2] = RawPayload

\* the command packets a step writes, over all sockets
NewCmdWrites ==
    {w \in UNION {{sockets'[a].written[i] :
                      i \in DOMAIN sockets'[a].written \ DOMAIN sockets[a].written} :
                  a \in Attempts} : w.k = "cmd"}

\* the number a packet carries in its two sequence bytes
SeqOf(w) == w.seqBytes[1] * 256 + w.seqBytes[2]

\* the commands a step ends without writing a packet
NewlyDropped ==
    {c \in DOMAIN cmds :
        /\ cmds[c].outcome = "none"
        /\ cmds'[c].outcome \in {"noconfig", "notready", "nodevice", "nolan"}}

\* the commands whose packet builder throws in this step
NewlyThrown ==
    {c \in DOMAIN cmds :
        cmds[c].outcome = "none" /\ cmds'[c].outcome = "threw"}

(* C30 as stated: a step writes at most one command packet; the packet
   carries, in its two sequence bytes, a number in 1..65535 that is one more
   than the counter before the step, or 1 when the counter stood at 65535,
   and the counter takes that number; a step that writes no command packet
   leaves the counter as it was, so that consecutive written packets carry
   consecutive numbers. *)
C30_ConsecutiveNumbers ==
    [][/\ Cardinality(NewCmdWrites) <= 1
       /\ \A w \in NewCmdWrites :
              /\ SeqOf(w) \in 1..SeqMax
              /\ SeqOf(w) = IF seq = SeqMax THEN 1 ELSE seq + 1
              /\ seq' = SeqOf(w)
       /\ NewCmdWrites = {} => seq' = seq
       /\ NewlyDropped # {} => NewCmdWrites = {}
      ]_vars

(* C30 amended: a step writes at most one command packet; the packet
   carries, in its two sequence bytes, a number in 1..65535 that is one more
   than the counter before the step, or 1 when the counter stood at 65535,
   and the counter takes that number; a step in which a command is dropped
   for want of a configuration, of a connection, of a known device or of LAN
   fields writes nothing and leaves the counter as it was; a step in which
   the packet builder throws writes nothing and moves the counter on by
   one; no other step changes the counter. *)
C30_SequenceNumbers ==
    [][/\ Cardinality(NewCmdWrites) <= 1
       /\ \A w \in NewCmdWrites :
              /\ SeqOf(w) \in 1..SeqMax
              /\ SeqOf(w) = IF seq = SeqMax THEN 1 ELSE seq + 1
              /\ seq' = SeqOf(w)
       /\ NewlyThrown # {} =>
              /\ NewCmdWrites = {}
              /\ seq' = IF seq = SeqMax THEN 1 ELSE seq + 1
       /\ (NewCmdWrites = {} /\ NewlyThrown = {}) => seq' = seq
       /\ NewlyDropped # {} => NewCmdWrites = {}
      ]_vars

\* every outcome of a command
Outcomes(c) == cmds[c].outcome

\* three commands have gone by: the first wrote a packet numbered 65535,
\* the builder of the second threw and took number 1, the third wrote a
\* packet numbered 2
C30_Witness ==
    /\ Len(cmds) = 3
    /\ Outcomes(1) = "written"
    /\ Outcomes(2) = "threw"
    /\ Outcomes(3) = "written"
    /\ seq = 2
    /\ \E a \in Attempts :
           \E i, j \in DOMAIN sockets[a].written :
               /\ i < j
               /\ sockets[a].written[i].k = "cmd"
               /\ sockets[a].written[j].k = "cmd"
               /\ sockets[a].written[i].seqBytes = <<255, 255>>
               /\ sockets[a].written[j].seqBytes = <<0, 2>>

\* the checksum byte of a packet: the last byte but one
ChecksumByte(packet) == packet[Len(packet) - 1]

\* the sum of the bytes of a packet at the given offsets
RECURSIVE SumAt(_, _)
SumAt(packet, offsets) ==
    IF offsets = <<>> THEN 0
    ELSE packet[Head(offsets) + 1] + SumAt(packet, Tail(offsets))

(* C31: the checksum byte of every power packet is (429 + the two mesh
   index bytes + the on byte) mod 256 and that of every combo packet is
   (496 + the two mesh index bytes + the on, brightness, tone, r, g and b
   bytes) mod 256, these bytes being the ones the packet carries for the
   mesh index and the values it was built from. *)
C31_Checksum ==
    /\ codec.op = "buildPowerPacket" =>
           /\ <<codec.bytes[27], codec.bytes[28]>> =
                  <<codec.in.meshId % 256, codec.in.meshId \div 256>>
           /\ codec.bytes[32] = (IF codec.in.on THEN 1 ELSE 0)
           /\ ChecksumByte(codec.bytes) =
                  (429 + SumAt(codec.bytes, <<26, 27, 31>>)) % 256
    /\ codec.op = "buildComboPacket" =>
           /\ <<codec.bytes[27], codec.bytes[28]>> =
                  <<codec.in.meshId % 256, codec.in.meshId \div 256>>
           /\ codec.bytes[32] = (IF codec.in.on THEN 1 ELSE 0)
           /\ codec.bytes[33] = byteOf(codec.in.level)
           /\ codec.bytes[34] = byteOf(codec.in.tone)
           /\ <<codec.bytes[35], codec.bytes[36], codec.bytes[37]>> =
                  <<byteOf(codec.in.rgb[1]), byteOf(codec.in.rgb[2]),
                    byteOf(codec.in.rgb[3])>>
           /\ ChecksumByte(codec.bytes) =
                  (496 + SumAt(codec.bytes, <<26, 27, 31, 32, 33, 34, 35, 36>>))
                      % 256

\* a power packet for mesh index 65535, switched on, whose sum has wrapped
C31_Witness ==
    /\ codec.op = "buildPowerPacket"
    /\ codec.in.meshId = 65535
    /\ codec.in.on
    /\ Len(codec.bytes) = 36
    /\ ChecksumByte(codec.bytes) = 172

\* the combo packets written, each with the command that wrote it
ComboWrites ==
    {w \in UNION {{sockets[a].written[i] : i \in DOMAIN sockets[a].written} :
                  a \in Attempts} :
        w.k = "cmd" /\ cmds[w.id].kind \in {"brightness", "color"}}

(* C32: every combo packet written by setBrightness or setColor carries
   either on flag 1 and a brightness byte in 1..100, or on flag 0 and
   brightness byte 0; one written by setBrightness carries the colour
   (255, 255, 255). *)
C32_OnFlagAndBrightnessAgree ==
    \A w \in ComboWrites :
        /\ \/ w.data[32] = 1 /\ w.data[33] \in 1..100
           \/ w.data[32] = 0 /\ w.data[33] = 0
        /\ cmds[w.id].kind = "brightness" =>
               <<w.data[35], w.data[36], w.data[37]>> = <<255, 255, 255>>

\* a parser was called and returned an update
Decoded ==
    /\ codec.op \in {"parseLanSwitchUpdate", "parseSwitchStateFrame"}
    /\ codec.payload # NoParse

(* C33: every update a parser returns, whatever the level byte, has a
   brightnessPct in 0..100 that is 0 when on is false and at least 1 when
   on is true. *)
C33_BrightnessPctRange ==
    Decoded =>
        /\ codec.payload.brightnessPct \in 0..100
        /\ ~codec.payload.on => codec.payload.brightnessPct = 0
        /\ codec.payload.on => codec.payload.brightnessPct >= 1

\* a frame that says on with level byte 0, decoded as on at 1 percent
C33_Witness ==
    /\ codec.op = "parseLanSwitchUpdate"
    /\ codec.in.level = 0
    /\ codec.payload.kind = "lan"
    /\ codec.payload.on
    /\ codec.payload.brightnessPct = 1

(* ---- C34: the cached LAN login code is derived from the credential --- *)

\* the blob of an authorize code of n bytes and a user id: 13 00 00 00, the
\* length byte 10 + n, 03, the user id in 4 bytes and n in 2 bytes, both
\* big-endian, the n bytes, 00 00 b4
LanBlob(authorize, userId) ==
    <<19, 0, 0, 0, 10 + Len(authorize), 3>>
    \o <<userId \div 16777216, (userId \div 65536) % 256,
         (userId \div 256) % 256, userId % 256>>
    \o <<Len(authorize) \div 256, Len(authorize) % 256>>
    \o authorize \o <<0, 0, 180>>

\* the LAN login code of a credential, decoded as getLanLoginCode() does, is
\* the blob of its authorize code and userId
DerivedFromItself(td) ==
    td.lan # <<>> =>
        fromBase64(td.lan) = LanBlob(td.authorize, parseInt(td.userId))

\* the credential becomes the one a refresh-token exchange built
ExchangeAdopted == pending.via = "exch" /\ tokenData' # tokenData

\* the credential becomes the one a password login built
PasswordAdopted == pending.via = "pw" /\ tokenData' # tokenData

\* what adopting a refreshed credential does to the LAN fields
KeepsLanFields ==
    /\ ExchangeAdopted =>
           /\ tokenData'.userId = tokenData.userId
           /\ tokenData'.authorize = tokenData.authorize
           /\ tokenData'.lan = tokenData.lan
    /\ PasswordAdopted => DerivedFromItself(tokenData')

\* C34: Whenever the current credential carries a cached LAN login code,
\* the code is the blob derived from that credential's authorize code and
\* userId.  A refresh-token exchange changes only the access token, the
\* refresh token and expiresAt of the credential; a password re-login
\* leaves a credential whose code is derived from its own fields.
C34_LanLoginCode ==
    /\ [](DerivedFromItself(tokenData))
    /\ [][KeepsLanFields]_vars

\* a credential a password re-login built (userId and authorize code of the
\* second token) after a refresh-token exchange renewed its access token
C34_Witness ==
    /\ tokenData.tok = 3
    /\ tokenData.userId = UserIds.login
    /\ tokenData.authorize = authorizeOf(2)
    /\ tokenData.lan # <<>>
    /\ flow.r.exchSave = "ok"

(* ---- C35: the reconnect delay doubles up to 30 s, one timer at most --- *)

\* scheduleReconnect() arms a timer
Arms == timerNo' # timerNo

\* the timer armed by this step
Armed == CHOOSE t \in timeouts' : t.id = timerNo'

\* a socket is installed
Established == socket' # 0 /\ socket' # socket

\* the counter counts the timers armed since it was last 0, and each timer
\* is armed with the delay of its count
BackoffStep ==
    /\ Arms => /\ Armed.delay =
                     (IF 1000 * 2^reconnectAttempt > 30000 THEN 30000
                      ELSE 1000 * 2^reconnectAttempt)
               /\ reconnectAttempt' = reconnectAttempt + 1
    /\ ~Arms => reconnectAttempt' \in {reconnectAttempt, 0}
    /\ Established => reconnectAttempt' = 0

\* C35: The k-th reconnect timer armed in a row (k from 0) has the delay
\* min(30000, 1000 * 2^k); the attempt counter returns to 0 when a socket is
\* established; at most one reconnect timer is pending at any time.
C35_Backoff ==
    /\ [](Cardinality(timeouts) <= 1)
    /\ [][BackoffStep]_vars

\* the sixth timer in a row is pending, with the ceiling as its delay
C35_Witness ==
    /\ reconnectAttempt = 6
    /\ \E t \in timeouts : t.id = reconnectTimer /\ t.delay = 30000

(* ---- C36: no socket and no heartbeat between disconnect and connect --- *)

\* C36: Once disconnect() has been called and until connect() is called
\* again, the transport holds no socket and runs no heartbeat timer, whatever
\* attempt was in flight and whatever command is issued in between.
C36_IdleWhileShutDown ==
    shuttingDown => socket = 0 /\ heartbeatTimer = 0 /\ intervals = {}

(* ---- C37: framing on a new socket starts from an empty buffer -------- *)

\* C37: Inbound framing on a newly established socket starts from an empty
\* read buffer: the bytes of an incomplete frame left over from an earlier
\* socket are not there to be combined with what the new socket receives.
C37_FramingStartsEmpty == [][Established => readBuffer' = <<>>]_vars

(* ---- C38: a frame whose subscriber throws is consumed all the same --- *)

\* C38: If the update subscriber throws while handling a frame, the frame
\* is still consumed from the read buffer: it is not dispatched again on a
\* later read, so the frames dispatched are the frames sent, each once and
\* in order, and the frames that follow it are still dispatched, so the
\* buffer never holds a complete frame after a read.
C38_ThrownFrameConsumed ==
    LET n == Len(dispatched) IN
    /\ n <= Len(rxFrames)
    /\ Strip(dispatched) = SubSeq(rxFrames, 1, n)
    /\ n < Len(rxFrames) =>
           Len(readBuffer) < Len(encodeFrame(rxFrames[n + 1]))

(* ---- C39: every command's promise settles ---------------------------- *)

\* command c has been enqueued
Enqueued(c) == Len(cmds) >= c

\* the promise of command c has settled
Settled(c) == Len(cmds) >= c /\ cmds[c].settled # "pending"

\* C39: Every enqueued command's promise eventually settles, provided every
\* connect attempt eventually succeeds or fails; the promise rejected is
\* that of a command whose body threw and no other, and the commands
\* enqueued after it settle as well.
C39_EveryCommandSettles ==
    /\ \A c \in 1..MaxCmdsLive : Enqueued(c) ~> Settled(c)
    /\ [](\A c \in DOMAIN cmds :
             (cmds[c].settled = "rejected") = (cmds[c].outcome = "threw"))

\* the body of the first command threw and its promise is rejected; the
\* second command wrote its packet and its promise is resolved
C39_Witness ==
    /\ Len(cmds) >= 2
    /\ cmds[1].outcome = "threw" /\ cmds[1].settled = "rejected"
    /\ cmds[2].outcome = "written" /\ cmds[2].settled = "resolved"

(* ---- C40: the cached mode follows successful opens, one way ---------- *)

\* how far down the ladder a cached mode is
Strictness(m) ==
    CASE m = "tcp" -> 3 [] m = "tls_relaxed" -> 2 [] m = "tls_strict" -> 1
      [] OTHER -> 0

\* attempt a has just opened its socket in mode m, and the socket is the
\* transport's
OpenedIn(a, m) ==
    /\ attempts[a].pc = m
    /\ attempts'[a].outcome = "ok"
    /\ sockets'[a].st = "open"
    /\ socket' = a

\* attempt a has just failed in the last mode it had to try
FailedNow(a) == attempts[a].outcome = "none" /\ attempts'[a].outcome = "fail"

CachedModeStep ==
    /\ transportMode' # transportMode =>
           /\ \E a \in Attempts : OpenedIn(a, transportMode')
           /\ Strictness(transportMode') > Strictness(transportMode)
    /\ \A a \in Attempts :
           FailedNow(a) =>
               /\ transportMode' = transportMode
               /\ transportMode' = attempts[a].cached
               /\ socket' = 0

\* C40: The cached transport mode is set only when a socket was opened in
\* that mode, and it moves only from tls_strict toward tls_relaxed and tcp,
\* never back; an attempt of which every tried mode fails leaves the cached
\* mode as it was and leaves the transport without a socket.
C40_CachedModeOneWay == [][CachedModeStep]_vars

\* with tls_strict cached from an earlier success, a later attempt walked
\* down the ladder and all three modes failed: tls_strict is still cached
\* and there is no socket
C40_Witness ==
    /\ transportMode = "tls_strict"
    /\ socket = 0
    /\ \E a \in Attempts :
           /\ attempts[a].cached = "tls_strict"
           /\ attempts[a].outcome = "fail"
           /\ Len(attempts[a].tried) = 3

====
